---- MODULE Spec2Model ----
(***************************************************************************)
(* Model of the Agent99 coordination / learning engine:                    *)
(*   services/super_agent.py  (SuperAgent: routing, agent execution,       *)
(*                             learning, persistence, optimization)        *)
(*   services/agents.py       (BaseAgent learning buffer)                  *)
(*   core/init_data.py        (init_super_agent)                           *)
(*   routes/super_agent.py    (HTTP triggers)                              *)
(*                                                                         *)
(* Numbers that are floats in the program are kept as integers scaled by   *)
(* 100 (0.8 is 80).  Python None is the string "None".  A conversation id  *)
(* is a sequence of one-character strings so that slicing (id[:8]) and     *)
(* substring search (content.contains(id)) are computed, not assumed.      *)
(***************************************************************************)
EXTENDS Integers, Sequences, FiniteSets, TLC

None == "None"

\* db_id = None (row ids are 1, 2, ...)
NoId == 0

(***************************************************************************)
(* Bounds of the model (not program constants).                            *)
(***************************************************************************)
MaxRuns == 2
MaxStartups == 2
MaxFaults == 1
MaxHours == 25
MaxOptimizations == 2
MaxLearnings == 102
MaxTrends == 1001

(***************************************************************************)
(* Program constants.                                                      *)
(***************************************************************************)
IdPrefixLen == 8
TagLimit == 3
PatternSaveLimit == 5
InsightSaveLimit == 3
TopN == 2
CategoryQueryLimit == 10
LearningQueryLimit == 10
DefaultSuccessRate == 80
SimilarSuccessThreshold == 70
LearningQueryThreshold == 60
AgentLearningThreshold == 80
CustomerSuccessThreshold == 80
BaseConfidence == 50
ConfidencePerPattern == 10
MaxConfidence == 90
DefaultConfidence == 50
ErrorConfidence == 30
OverallConfidence == 80
AgentConfidence == 80
OptimizationFrequency == 24
HistoryLimit == 100
TrendLimit == 1000
ExpectedImprovement == 15

(***************************************************************************)
(* Sequence helpers.                                                       *)
(***************************************************************************)
Min(a, b) == IF a <= b THEN a ELSE b

\* Python s[:n]
Take(s, n) == SubSeq(s, 1, Min(n, Len(s)))

\* needle occurs as a contiguous run of hay (SQL LIKE '%needle%')
Contains(hay, needle) ==
    \E i \in 0..(Len(hay) - Len(needle)) :
        \A j \in 1..Len(needle) : hay[i + j] = needle[j]

Range(s) == { s[i] : i \in 1..Len(s) }

Reverse(s) == [i \in 1..Len(s) |-> s[Len(s) + 1 - i]]

\* list(set(s)): the distinct elements of s; CPython's set order is not the
\* list order, the model keeps first occurrences in list order.
RECURSIVE Dedup(_)
Dedup(s) ==
    IF s = <<>> THEN <<>>
    ELSE LET r == Dedup(SubSeq(s, 1, Len(s) - 1))
             x == s[Len(s)]
         IN IF x \in Range(r) THEN r ELSE Append(r, x)

\* ORDER BY confidence_score DESC (stable)
RECURSIVE SortByConfidenceDesc(_)
SortByConfidenceDesc(s) ==
    IF s = <<>> THEN <<>>
    ELSE LET m == CHOOSE i \in 1..Len(s) :
                    /\ \A j \in 1..Len(s) : s[j].confidence_score <= s[i].confidence_score
                    /\ \A j \in 1..(i - 1) : s[j].confidence_score < s[i].confidence_score
             rest == [k \in 1..(Len(s) - 1) |-> IF k < m THEN s[k] ELSE s[k + 1]]
         IN <<s[m]>> \o SortByConfidenceDesc(rest)

(***************************************************************************)
(* The persistent store.  A table is a sequence of rows in insertion       *)
(* (created_at) order.                                                     *)
(***************************************************************************)

\* columns of the conversations table: `tags` is a Python property over
\* tags_json, and there is no customer_id column (customer_profile_id only)
ConversationColumns ==
    {"id", "category", "tags_json", "sentiment", "status", "message_count",
     "duration_hours", "avg_response_time_minutes", "avg_message_length",
     "customer_profile_id", "created_at", "updated_at"}

\* uuid.UUID(s) succeeds
_is_valid_uuid(s) == s = "uuid-1"

\* f"... conversación {conversation.id[:8]}... - {p} patrones, {a} optimizaciones, {b} insights"
ConversationLearningContent(id, p, a, b) ==
    <<"Super Agente aprendio de conversacion ">> \o Take(id, IdPrefixLen)
        \o <<"... - ", ToString(p), " patrones, ", ToString(a),
             " optimizaciones, ", ToString(b), " insights">>

AgentLearning(agent_type, learning_type, content, confidence, category, conversation_id) ==
    [agent_type |-> agent_type, learning_type |-> learning_type,
     content |-> content, confidence_score |-> confidence,
     category |-> category, conversation_id |-> conversation_id]

\* the duplicate check of _save_learnings_to_db:
\* agent_type == "super_agent", learning_type == "conversation_learning",
\* content LIKE %conversation.id%
ExistingLearning(learnings, id) ==
    \E i \in 1..Len(learnings) :
        /\ learnings[i].agent_type = "super_agent"
        /\ learnings[i].learning_type = "conversation_learning"
        /\ Contains(learnings[i].content, id)

_get_conversation_success_rate(conversation_id) == DefaultSuccessRate

(***************************************************************************)
(* Pattern mining (read-only queries).  `fail` says that the query raised; *)
(* every finder catches the exception and returns the empty list.          *)
(***************************************************************************)
_find_similar_conversation_patterns(conversations, conversation, fail) ==
    IF fail THEN <<>>
    ELSE IF conversation.tags # <<>> /\ "tags" \notin ConversationColumns
    THEN <<>>    \* ConversationModel.tags.any(tag) raises: one try covers both queries
    ELSE
        LET tagged(tag) ==
                Take(Reverse(SelectSeq(conversations,
                        LAMBDA r : tag \in Range(r.tags) /\ r.id # conversation.id)), 5)
            tagPattern(tag) ==
                (LET xs1 == tagged(tag) IN [k1 \in 1..Len(xs1) |-> LET r == xs1[k1] IN [type |-> "tag_similarity", conversation_id |-> r.id,
                     category |-> r.category, sentiment |-> r.sentiment,
                     success_rate |-> _get_conversation_success_rate(r.id),
                     similarity_score |-> 80]])
            tags3 == Take(conversation.tags, TagLimit)
            tagPatterns[k \in 0..Len(tags3)] ==
                IF k = 0 THEN <<>> ELSE tagPatterns[k - 1] \o tagPattern(tags3[k])
            category_conversations ==
                Take(Reverse(SelectSeq(conversations,
                        LAMBDA r : r.category = conversation.category
                                   /\ r.id # conversation.id)), CategoryQueryLimit)
            matching == SelectSeq(category_conversations,
                                  LAMBDA r : r.sentiment = conversation.sentiment)
        IN tagPatterns[Len(tags3)] \o
           (LET xs2 == matching IN [k2 \in 1..Len(xs2) |-> LET r == xs2[k2] IN [type |-> "category_sentiment_similarity", conversation_id |-> r.id,
                 category |-> r.category, sentiment |-> r.sentiment,
                 success_rate |-> _get_conversation_success_rate(r.id),
                 similarity_score |-> 70]])

_find_agent_learnings_for_category(learnings, category, fail) ==
    IF fail THEN <<>>
    ELSE Take(SortByConfidenceDesc(SelectSeq(learnings,
                LAMBDA l : l.category = category
                           /\ l.confidence_score > LearningQueryThreshold)),
              LearningQueryLimit)

_find_customer_success_patterns(conversations, customer_id, fail) ==
    IF customer_id = None \/ ~_is_valid_uuid(customer_id) THEN <<>>
    ELSE IF fail \/ "customer_id" \notin ConversationColumns
    THEN <<>>    \* ConversationModel.customer_id raises; caught, []
    ELSE
        LET rows == Take(Reverse(SelectSeq(conversations,
                        LAMBDA r : r.customer_id = customer_id)), 10)
            good == SelectSeq(rows,
                        LAMBDA r : _get_conversation_success_rate(r.id) > 70)
        IN (LET xs3 == good IN [k3 \in 1..Len(xs3) |-> LET r == xs3[k3] IN [type |-> "customer_success_pattern", conversation_id |-> r.id,
                 category |-> r.category, sentiment |-> r.sentiment,
                 success_rate |-> _get_conversation_success_rate(r.id),
                 pattern_strength |-> 80]])

(***************************************************************************)
(* Routing decision.                                                       *)
(***************************************************************************)
RoutingDecision(agents, confidence, learning_based, patterns_used, optimization_applied) ==
    [recommended_agents |-> agents, confidence_score |-> confidence,
     learning_based |-> learning_based, patterns_used |-> patterns_used,
     optimization_applied |-> optimization_applied]

\* variant: the coordinator is never appended
CoordinatorFallback_Never(agents) == agents

\* "4. Agregar agente de coordinación si no hay suficientes agentes"
CoordinatorFallback(agents) ==
    IF Len(agents) < 2 THEN Append(agents, "coordinator") ELSE agents

\* variant: the confidence does not depend on the patterns used
ConfidenceFromPatterns_Flat(pattern_count) == BaseConfidence

\* min(0.9, 0.5 + (pattern_count * 0.1))
ConfidenceFromPatterns(pattern_count) ==
    Min(MaxConfidence, BaseConfidence + pattern_count * ConfidencePerPattern)

_make_intelligent_routing_decision(conversation, similar_patterns, agent_learnings, customer_patterns) ==
    LET successful_categories ==
            (LET xs4 == SelectSeq(similar_patterns,
                       LAMBDA p : p.success_rate > SimilarSuccessThreshold) IN [k4 \in 1..Len(xs4) |-> LET p == xs4[k4] IN p.category])
        successful_agents ==
            (LET xs5 == SelectSeq(agent_learnings,
                       LAMBDA l : l.confidence_score > AgentLearningThreshold) IN [k5 \in 1..Len(xs5) |-> LET l == xs5[k5] IN l.agent_type])
        customer_success_categories ==
            (LET xs6 == SelectSeq(customer_patterns,
                       LAMBDA p : p.success_rate > CustomerSuccessThreshold) IN [k6 \in 1..Len(xs6) |-> LET p == xs6[k6] IN p.category])
        agents == Take(successful_categories, TopN) \o Take(successful_agents, TopN)
                    \o Take(customer_success_categories, TopN)
        used == (IF successful_categories # <<>> THEN <<"conversation_similarity">> ELSE <<>>)
             \o (IF successful_agents # <<>> THEN <<"agent_learnings">> ELSE <<>>)
             \o (IF customer_success_categories # <<>>
                 THEN <<"customer_success_patterns">> ELSE <<>>)
    IN RoutingDecision(Dedup(CoordinatorFallback(agents)),
                       ConfidenceFromPatterns(Len(used)),
                       TRUE, used, FALSE)

\* variant: the else branch answers like the except branch
DefaultRouting_AsError(conversation) ==
    RoutingDecision(<<conversation.category, "coordinator">>, ErrorConfidence,
                    FALSE, <<>>, FALSE)

\* the else branch of _apply_learnings_for_routing
DefaultRouting(conversation) ==
    RoutingDecision(<<conversation.category, "coordinator">>, DefaultConfidence,
                    FALSE, <<>>, FALSE)

\* the except branch of _apply_learnings_for_routing
ErrorRouting(conversation) ==
    RoutingDecision(<<conversation.category, "coordinator">>, ErrorConfidence,
                    FALSE, <<>>, FALSE)

(***************************************************************************)
(* Inputs.                                                                 *)
(***************************************************************************)
LongIdA == <<"a", "1", "b", "2", "c", "3", "d", "4", "e">>
LongIdB == <<"a", "1", "b", "2", "c", "3", "d", "4", "f">>
ShortId == <<"a", "1", "b">>

Conversation(id, category, tags, sentiment, customer_id) ==
    [id |-> id, category |-> category, tags |-> tags,
     sentiment |-> sentiment, customer_id |-> customer_id]

\* the conversations a caller may submit (the same one may be submitted again)
InputConversations ==
    { Conversation(LongIdA, "ventas", <<>>, None, None),
      Conversation(LongIdB, "soporte", <<"error", "factura">>, "positive", "uuid-1"),
      Conversation(ShortId, None, <<>>, None, "+57 300") }

ConversationRow(id, category, tags, sentiment) ==
    [id |-> id, category |-> category, tags |-> tags, sentiment |-> sentiment]

\* contents of the conversations table (written by the ingestion layer)
Histories ==
    { <<>>,
      << ConversationRow(<<"h", "1">>, "ventas", <<>>, None),
         ConversationRow(<<"h", "2">>, "soporte", <<"error">>, "positive"),
         ConversationRow(<<"h", "3">>, "ventas", <<>>, None) >> }

\* a learning row that was not written for a conversation
NoConversation == <<>>

\* init_agent_learnings: the three example rows (no category is stored)
SeedLearnings ==
    << AgentLearning("sales", "product_preference", <<"leggings">>, 85, None, NoConversation),
       AgentLearning("support", "common_issue", <<"tallas">>, 90, None, NoConversation),
       AgentLearning("complaint", "resolution_pattern", <<"cambio">>, 95, None, NoConversation) >>

(***************************************************************************)
(* State.                                                                  *)
(***************************************************************************)
VARIABLES
    phase,              \* "down" | "constructed" | "up": the server process
    startups,           \* number of process starts so far
    faults,             \* number of injected store / handler failures so far
    db_conversations,   \* table conversations
    db_learnings,       \* table agent_learnings
    db_metrics,         \* table agent_metrics
    db_super_agents,    \* table super_agents
    db_id,              \* SuperAgent.db_id
    global_memory,      \* SuperAgent.global_memory
    aggregated_metrics, \* SuperAgent.aggregated_metrics
    is_learning,        \* SuperAgent.is_learning
    optimization_count, \* SuperAgent.optimization_count
    last_optimization,  \* SuperAgent.last_optimization (hours)
    now,                \* wall clock (hours)
    runs,               \* number of process_conversation calls started
    pc,                 \* per call: the step of process_conversation it is at
    conversation,       \* per call: the argument
    intelligent_routing,\* per call: local of process_conversation
    agent_results,      \* per call: local of process_conversation
    learning_outcome,   \* per call: local of process_conversation
    reg,                \* per call: value read by a read-modify-write
    phase_no,           \* per call: which _update_global_memory call is running
    mined,              \* per call: what the three finders of step 2 returned
    initial_analysis,   \* per call: local of process_conversation (step 1)
    errors,             \* per call: the functions whose except branch logged an error
    agent_type,         \* BaseAgent.agent_type
    learning_history,   \* BaseAgent.learning_history
    performance_metrics,\* BaseAgent.performance_metrics
    specialization_areas,\* BaseAgent.specialization_areas
    delivery,           \* the (conversation, outcome) handed to the agent
    optimizing,         \* _run_optimization_cycle is between its start and its end
    performance_analysis, \* local of _run_optimization_cycle
    cycle_errors        \* the functions of the last optimization cycle that logged an error

store == <<db_conversations, db_learnings, db_metrics, db_super_agents>>
memory == <<db_id, global_memory, aggregated_metrics, is_learning,
            optimization_count, last_optimization>>
locals == <<pc, conversation, intelligent_routing, agent_results,
            learning_outcome, reg, phase_no, mined>>
agent == <<agent_type, learning_history, performance_metrics,
           specialization_areas, delivery>>
optimizer == <<optimizing, performance_analysis, cycle_errors>>
observed == <<initial_analysis, errors>>
vars == <<phase, startups, faults, store, memory, now, runs, locals, agent, optimizer, observed>>

\* the call slots of the sequential specifications: requests are served one
\* at a time (BeginAlone), so one slot holds the request being served
Threads == {1}

\* a store access or a handler may fail while the fault budget lasts
MayFail == IF faults < MaxFaults THEN BOOLEAN ELSE {FALSE}
Charge(fail) == faults' = faults + (IF fail THEN 1 ELSE 0)

\* SuperAgent.__init__: the in-memory state of a new coordinator
FreshGlobalMemory ==
    [conversation_trends |-> <<>>,
     learning_cycles |-> <<>>,
     optimization_history |-> <<>>,
     agent_optimizations |-> <<>>,
     routing_optimizations |-> <<>>]

FreshAggregatedMetrics == [total_conversations |-> 0, success_rate |-> 0]

\* the three lists _apply_learnings_for_routing holds after its finders ran
Mined(similar_patterns, agent_learnings, customer_patterns) ==
    [ran |-> TRUE, similar_patterns |-> similar_patterns,
     agent_learnings |-> agent_learnings, customer_patterns |-> customer_patterns]

\* the finders have not run (or the session could not be opened)
NotMined ==
    [ran |-> FALSE, similar_patterns |-> <<>>, agent_learnings |-> <<>>,
     customer_patterns |-> <<>>]

\* BaseAgent.__init__ and the subclass constructors (module-level instances)
available_agents == {"sales", "support", "coordinator"}

InitialSpecializationAreas(type) ==
    IF type = "sales" THEN <<"ventas", "productos", "cotizaciones", "objeciones">>
    ELSE IF type = "support" THEN <<"soporte", "tecnico", "problemas", "soluciones">>
    ELSE <<"coordinacion", "enrutamiento", "gestion", "optimizacion">>

FreshPerformanceMetrics == [patterns_identified |-> 0, improvements_suggested |-> 0]

NoDelivery == [conversation |-> None, outcome |-> None]

\* an agent object right after construction, nothing handed to it
FreshAgent(type) ==
    /\ agent_type = type
    /\ learning_history = <<>>
    /\ performance_metrics = FreshPerformanceMetrics
    /\ specialization_areas = InitialSpecializationAreas(type)

\* the local performance_analysis outside a cycle
NoPerformanceAnalysis == [absent |-> TRUE]

\* no optimization cycle is running
NotOptimizing ==
    /\ optimizing = FALSE
    /\ performance_analysis = NoPerformanceAnalysis
    /\ cycle_errors = {}

NoLocals ==
    /\ pc = [t \in Threads |-> "idle"]
    /\ conversation = [t \in Threads |-> None]
    /\ intelligent_routing = [t \in Threads |-> None]
    /\ agent_results = [t \in Threads |-> None]
    /\ learning_outcome = [t \in Threads |-> None]
    /\ reg = [t \in Threads |-> 0]
    /\ phase_no = [t \in Threads |-> 0]
    /\ mined = [t \in Threads |-> NotMined]
    /\ initial_analysis = [t \in Threads |-> None]
    /\ errors = [t \in Threads |-> {}]

Init ==
    /\ phase = "down"
    /\ startups = 0
    /\ faults = 0
    /\ db_conversations \in Histories
    /\ db_learnings = <<>>
    /\ db_metrics = <<>>
    /\ db_super_agents = <<>>
    /\ db_id = NoId
    /\ global_memory = FreshGlobalMemory
    /\ aggregated_metrics = FreshAggregatedMetrics
    /\ is_learning = FALSE
    /\ optimization_count = 0
    /\ last_optimization = 0
    /\ now = 0
    /\ runs = 0
    /\ NoLocals
    /\ NotOptimizing
    /\ FreshAgent("coordinator")
    /\ delivery = NoDelivery

(***************************************************************************)
(* Startup.                                                                *)
(***************************************************************************)
SuperAgentRow(id) ==
    [id |-> id, name |-> "SuperAgent",
     total_conversations_processed |-> 0, total_learnings_generated |-> 0,
     success_rate |-> 0]

\* select(SuperAgentModel).where(name == "SuperAgent").first(): index or 0
FindSuperAgentByName(rows) ==
    IF \E i \in 1..Len(rows) : rows[i].name = "SuperAgent"
    THEN CHOOSE i \in 1..Len(rows) :
            rows[i].name = "SuperAgent" /\ \A j \in 1..(i - 1) : rows[j].name # "SuperAgent"
    ELSE 0

\* the rows _register_in_database leaves in super_agents: the existing row
\* is kept (its update is never committed), otherwise one is created
_register_in_database(rows) ==
    IF FindSuperAgentByName(rows) # 0 THEN rows
    ELSE Append(rows, SuperAgentRow(Len(rows) + 1))

\* variant: the row is created without looking for an existing one
init_super_agent_AlwaysCreate(rows) == Append(rows, SuperAgentRow(Len(rows) + 1))

\* the rows init_super_agent leaves in super_agents
init_super_agent(rows) ==
    IF FindSuperAgentByName(rows) # 0 THEN rows
    ELSE Append(rows, SuperAgentRow(Len(rows) + 1))

\* SuperAgent() at import of services.super_agent: __init__ and
\* _register_in_database (any exception there leaves db_id = NoId)
Construct ==
    /\ phase = "down"
    /\ startups < MaxStartups
    /\ \E fail \in MayFail :
        /\ Charge(fail)
        /\ IF fail
           THEN /\ db_id' = NoId
                /\ UNCHANGED db_super_agents
           ELSE /\ db_super_agents' = _register_in_database(db_super_agents)
                /\ db_id' = db_super_agents'[FindSuperAgentByName(db_super_agents')].id
    /\ phase' = "constructed"
    /\ startups' = startups + 1
    /\ global_memory' = FreshGlobalMemory
    /\ aggregated_metrics' = FreshAggregatedMetrics
    /\ is_learning' = FALSE
    /\ optimization_count' = 0
    /\ last_optimization' = now
    /\ UNCHANGED <<observed, optimizer, agent, db_conversations, db_learnings, db_metrics, now, runs, locals>>

\* the rows init_agent_learnings leaves in agent_learnings
InitAgentLearnings(learnings) ==
    IF learnings # <<>> THEN learnings ELSE SeedLearnings

\* init_data() in the lifespan hook: init_agent_learnings (swallows its
\* errors) and init_super_agent (re-raises: the startup is aborted)
InitData ==
    /\ phase = "constructed"
    /\ \E where \in {"none"} \cup (IF faults < MaxFaults
                                   THEN {"learnings", "super_agent"} ELSE {}) :
        /\ Charge(where # "none")
        /\ db_learnings' = IF where = "learnings" THEN db_learnings
                           ELSE InitAgentLearnings(db_learnings)
        /\ IF where = "super_agent"
           THEN /\ phase' = "down"
                /\ UNCHANGED <<db_super_agents, db_id>>
           ELSE /\ phase' = "up"
                /\ db_super_agents' = init_super_agent(db_super_agents)
                /\ db_id' = db_super_agents'[FindSuperAgentByName(db_super_agents')].id
    /\ UNCHANGED <<observed, optimizer, agent, startups, db_conversations, db_metrics, global_memory,
                   aggregated_metrics, is_learning, optimization_count,
                   last_optimization, now, runs, locals>>

\* the process stops (between requests)
Shutdown ==
    /\ phase = "up"
    /\ \A t \in Threads : pc[t] = "idle"
    /\ phase' = "down"
    /\ UNCHANGED <<observed, optimizer, agent, startups, faults, store, memory, now, runs, locals>>

(***************************************************************************)
(* Agent execution, synthesis and learning extraction (pure parts).        *)
(***************************************************************************)
\* _process_with_specific_agent: the simulated handler; an exception inside
\* it is caught there and returned as {"error": ...}
_process_with_specific_agent(c, type, raises) ==
    IF raises THEN [error |-> "handler failed"]
    ELSE [agent_type |-> type, conversation_id |-> c.id,
          confidence_score |-> AgentConfidence, learning_generated |-> 1]

\* variant: the handler of the conversation's category always runs as well
AgentsToRun_WithCategory(c, routing) ==
    { IF c.category # None THEN c.category ELSE "coordinator" }
        \cup (IF routing.recommended_agents # <<>> /\ routing.learning_based
              THEN Range(routing.recommended_agents) ELSE {})

\* the handlers _route_to_specialized_agents_with_learnings calls
AgentsToRun(c, routing) ==
    IF routing.recommended_agents # <<>> /\ routing.learning_based
    THEN Range(routing.recommended_agents)
    ELSE { IF c.category # None THEN c.category ELSE "coordinator" }

_calculate_overall_confidence(results) == OverallConfidence

\* results whose dict has success == True
_identify_opportunities(results) ==
    { a \in DOMAIN results : "success" \in DOMAIN results[a] /\ results[a].success }

_synthesize_agent_results(results, c) ==
    [conversation_id |-> c.id,
     agent_participation |-> DOMAIN results,
     confidence_score |-> _calculate_overall_confidence(results),
     risk_assessment |-> "low",
     opportunity_identification |-> _identify_opportunities(results)]

Pattern(type, confidence) == [type |-> type, confidence |-> confidence]

\* the query on ConversationModel.customer_id raises; caught, []
_identify_customer_patterns(conversations, c) ==
    IF c.customer_id = None \/ ~_is_valid_uuid(c.customer_id) THEN <<>>
    ELSE IF "customer_id" \notin ConversationColumns THEN <<>>
    ELSE IF Len(SelectSeq(conversations, LAMBDA r : r.customer_id = c.customer_id)) > 1
         THEN <<Pattern("category_preference", 80)>>
         ELSE <<>>

_identify_conversation_patterns(c) ==
    (IF c.category # None THEN <<Pattern("conversation_category", 90)>> ELSE <<>>)
    \o (IF c.tags # <<>> THEN <<Pattern("conversation_tags", 80)>> ELSE <<>>)
    \o (IF c.sentiment # None THEN <<Pattern("conversation_sentiment", 70)>> ELSE <<>>)

_identify_agent_patterns(synthesis) ==
    (IF synthesis.agent_participation # {}
     THEN <<Pattern("agent_participation", 80)>> ELSE <<>>)
    \o (IF synthesis.confidence_score # 0
        THEN <<Pattern("overall_confidence", 70)>> ELSE <<>>)

_identify_business_patterns(c, synthesis) ==
    <<Pattern("business_risk", 60)>>
    \o (IF synthesis.opportunity_identification # {}
        THEN <<Pattern("business_opportunity", 70)>> ELSE <<>>)

_identify_patterns(conversations, c, synthesis) ==
    _identify_customer_patterns(conversations, c)
    \o _identify_conversation_patterns(c)
    \o _identify_agent_patterns(synthesis)
    \o _identify_business_patterns(c, synthesis)

_learn_from_agent_performance(synthesis) ==
    (IF synthesis.agent_participation # {}
     THEN <<Pattern("agent_participation_learning", 80)>> ELSE <<>>)
    \o (IF synthesis.confidence_score > 80
        THEN <<Pattern("high_confidence_learning", 90)>>
        ELSE IF synthesis.confidence_score # 0 /\ synthesis.confidence_score < 50
             THEN <<Pattern("low_confidence_learning", 70)>> ELSE <<>>)

_extract_business_insights(c, synthesis) ==
    (IF c.category # None THEN <<Pattern("category_insight", 80)>> ELSE <<>>)
    \o (IF c.sentiment # None THEN <<Pattern("sentiment_insight", 70)>> ELSE <<>>)
    \o (IF synthesis.confidence_score > 80
        THEN <<Pattern("performance_insight", 90)>> ELSE <<>>)

LearningOutcome(conversations, c, synthesis) ==
    [conversation_id |-> c.id,
     patterns_identified |-> _identify_patterns(conversations, c, synthesis),
     agent_optimizations |-> _learn_from_agent_performance(synthesis),
     business_insights |-> _extract_business_insights(c, synthesis)]

\* variant: more than three patterns are required
_has_significant_learning_FourPatterns(outcome) ==
    \/ Len(outcome.patterns_identified) > 3
    \/ Len(outcome.agent_optimizations) > 1
    \/ Len(outcome.business_insights) > 2

_has_significant_learning(outcome) ==
    \/ Len(outcome.patterns_identified) > 2
    \/ Len(outcome.agent_optimizations) > 1
    \/ Len(outcome.business_insights) > 2

(***************************************************************************)
(* Rows written by _save_learnings_to_db.                                  *)
(***************************************************************************)
\* category=conversation.category or "general"
CategoryOrGeneral(c) == IF c.category # None THEN c.category ELSE "general"

ConversationLearning(c, outcome) ==
    AgentLearning("super_agent", "conversation_learning",
        ConversationLearningContent(c.id, Len(outcome.patterns_identified),
            Len(outcome.agent_optimizations), Len(outcome.business_insights)),
        80, CategoryOrGeneral(c), c.id)

\* _save_tag_learnings_to_db
TagLearnings(c) ==
    (LET xs7 == Take(c.tags, TagLimit) IN [k7 \in 1..Len(xs7) |-> LET tag == xs7[k7] IN AgentLearning("super_agent", "tag_learning",
            <<"tag ", tag>> \o Take(c.id, IdPrefixLen), 70, CategoryOrGeneral(c), c.id)])

\* _save_pattern_learnings_to_db
PatternLearnings(c, outcome) ==
    (LET xs8 == Take(outcome.patterns_identified, PatternSaveLimit) IN [k8 \in 1..Len(xs8) |-> LET p == xs8[k8] IN AgentLearning("super_agent", "pattern_learning",
            <<"patron ", p.type>>, p.confidence, CategoryOrGeneral(c), c.id)])

\* _save_business_insights_to_db
InsightLearnings(c, outcome) ==
    (LET xs9 == Take(outcome.business_insights, InsightSaveLimit) IN [k9 \in 1..Len(xs9) |-> LET p == xs9[k9] IN AgentLearning("super_agent", "business_insight",
            <<"insight ", p.type>>, p.confidence, CategoryOrGeneral(c), c.id)])

\* index of the row with this id in super_agents, or 0
FindSuperAgentById(rows, id) ==
    IF \E i \in 1..Len(rows) : rows[i].id = id
    THEN CHOOSE i \in 1..Len(rows) : rows[i].id = id
    ELSE 0

\* _update_super_agent_metrics: the row after one conversation
UpdatedSuperAgentRow(row, outcome, metrics) ==
    [row EXCEPT
        !.total_conversations_processed = @ + 1,
        !.total_learnings_generated = @ + Len(outcome.patterns_identified)
            + Len(outcome.agent_optimizations) + Len(outcome.business_insights),
        !.success_rate = IF metrics.success_rate # 0 THEN (@ + 80) \div 2 ELSE @]

\* _sync_memory_to_database: the row overwritten from memory
SyncedSuperAgentRow(row, memory_, metrics) ==
    [row EXCEPT
        !.total_conversations_processed = metrics.total_conversations,
        !.total_learnings_generated = Len(memory_.learning_cycles),
        !.success_rate = metrics.success_rate]

AgentMetric(c, synthesis) ==
    [agent_id |-> "super_agent", conversation_id |-> c.id,
     success_rate |-> synthesis.confidence_score]

(***************************************************************************)
(* process_conversation, step by step.  `t` names the call.                *)
(***************************************************************************)
Goto(t, label) == pc' = [pc EXCEPT ![t] = label]

FaultAt(points) == {"none"} \cup (IF faults < MaxFaults THEN points ELSE {})

\* variant: the profile analysis does not test the customer reference first
_analyze_customer_profile_NoShortCircuit(customer_id, customer) ==
    IF customer_id = None \/ ~_is_valid_uuid(customer_id)
    THEN [status |-> "error", error |-> "invalid customer reference"]
    ELSE IF ~customer THEN [status |-> "new_customer"]
    ELSE [status |-> "existing_customer", customer_id |-> customer_id,
          risk_score |-> 50, opportunity_score |-> 50]

\* _analyze_customer_profile; `customer` tells whether _get_customer_profile
\* found a profile row for a valid customer id
_analyze_customer_profile(customer_id, customer) ==
    IF customer_id = None \/ ~_is_valid_uuid(customer_id)
    THEN [status |-> "new_customer", customer_id |-> customer_id,
          risk_score |-> 50, opportunity_score |-> 50]
    ELSE IF ~customer THEN [status |-> "new_customer"]
    ELSE [status |-> "existing_customer", customer_id |-> customer_id,
          risk_score |-> 50, opportunity_score |-> 50]

\* _get_conversation_history: the customer_id query raises and is caught
_get_conversation_history(conversations, customer_id) ==
    IF customer_id = None \/ ~_is_valid_uuid(customer_id) THEN <<>>
    ELSE IF "customer_id" \notin ConversationColumns THEN <<>>
    ELSE Take(Reverse(SelectSeq(conversations,
                LAMBDA r : r.customer_id = customer_id)), 10)

_analyze_conversation_context(conversations, c, customer) ==
    [customer_profile |-> _analyze_customer_profile(c.customer_id, customer),
     conversation_history |-> _get_conversation_history(conversations, c.customer_id),
     complexity_score |-> 50]

\* the profile lookup may find a row only for a valid customer id
ProfileLookups(c) ==
    IF c.customer_id = None \/ ~_is_valid_uuid(c.customer_id) THEN {FALSE} ELSE BOOLEAN

\* process_conversation is entered and runs step 1,
\* _analyze_conversation_context, which only reads
Begin(t, c) ==
    /\ phase = "up"
    /\ pc[t] = "idle"
    /\ runs < MaxRuns
    /\ runs' = runs + 1
    /\ conversation' = [conversation EXCEPT ![t] = c]
    /\ \E customer \in ProfileLookups(c) :
            initial_analysis' = [initial_analysis EXCEPT ![t] =
                _analyze_conversation_context(db_conversations, c, customer)]
    /\ errors' = [errors EXCEPT ![t] = {}]
    /\ Goto(t, "route")
    /\ UNCHANGED <<optimizer, agent, mined, phase, startups, faults, store, memory, now,
                   intelligent_routing, agent_results, learning_outcome, reg, phase_no>>

\* _optimize_agent_parameters_from_learnings: the rows it would apply
AgentOptimizationRows(learnings, c, fail) ==
    IF fail THEN <<>>
    ELSE Take(SortByConfidenceDesc(SelectSeq(learnings, LAMBDA l :
                /\ l.learning_type = "agent_optimization"
                /\ l.category = c.category
                /\ l.confidence_score > 80)), 5)

\* _optimize_routing_from_learnings: the rows it would apply
RoutingOptimizationRows(learnings, c, fail) ==
    IF fail THEN <<>>
    ELSE Take(SortByConfidenceDesc(SelectSeq(learnings, LAMBDA l :
                /\ l.learning_type = "routing_optimization"
                /\ l.category = c.category
                /\ l.confidence_score > 70)), 3)

\* the call logs an error for each of these functions
Logged(t, functions) == errors' = [errors EXCEPT ![t] = @ \cup functions]

\* the functions of step 2 whose except branch runs.  `where` is the failing
\* statement: "session" (the session cannot be opened), "store_down" (every
\* query raises) or one query.
RoutingErrors(c, where) ==
    IF where = "session" THEN {"_apply_learnings_for_routing"}
    ELSE (IF where \in {"similar", "store_down"}
             \/ (c.tags # <<>> /\ "tags" \notin ConversationColumns)
          THEN {"_find_similar_conversation_patterns"} ELSE {})
         \cup (IF where \in {"learnings", "store_down"}
               THEN {"_find_agent_learnings_for_category"} ELSE {})
         \cup (IF c.customer_id # None /\ _is_valid_uuid(c.customer_id)
                  /\ (where = "store_down" \/ "customer_id" \notin ConversationColumns)
               THEN {"_find_customer_success_patterns"} ELSE {})
         \cup (IF where = "agent_opt"
               THEN {"_optimize_agent_parameters_from_learnings"} ELSE {})
         \cup (IF where = "routing_opt"
               THEN {"_optimize_routing_from_learnings"} ELSE {})

\* step 2: _apply_learnings_for_routing
ApplyLearningsForRouting(t) ==
    /\ pc[t] = "route"
    /\ LET c == conversation[t]
           \* what each finder returns when its query succeeds and when it raises
           similar(fail) == _find_similar_conversation_patterns(db_conversations, c, fail)
           learned(fail) == _find_agent_learnings_for_category(db_learnings, c.category, fail)
           customer(fail) == _find_customer_success_patterns(db_conversations, c.customer_id, fail)
           similar_found == similar(FALSE)
           learned_found == learned(FALSE)
           customer_found == customer(FALSE)
       IN
       \E where \in FaultAt({"session", "store_down", "similar", "learnings",
                             "agent_opt", "routing_opt"}) :
        LET similar_patterns ==
                IF where \in {"similar", "store_down"} THEN similar(TRUE) ELSE similar_found
            agent_learnings ==
                IF where \in {"learnings", "store_down"} THEN learned(TRUE) ELSE learned_found
            customer_patterns ==
                IF where = "store_down" THEN customer(TRUE) ELSE customer_found
            found == similar_patterns # <<>> \/ agent_learnings # <<>>
                        \/ customer_patterns # <<>>
            decision == _make_intelligent_routing_decision(
                            c, similar_patterns, agent_learnings, customer_patterns)
            \* an optimization is kept only if appending it to global_memory worked
            agentOpts == IF "agent_optimizations" \in DOMAIN global_memory
                         THEN AgentOptimizationRows(db_learnings, c, where = "agent_opt")
                         ELSE <<>>
            routingOpts == IF "routing_optimizations" \in DOMAIN global_memory
                           THEN RoutingOptimizationRows(db_learnings, c, where = "routing_opt")
                           ELSE <<>>
            \* applied once when found and once more by _apply_single_optimization
            logA == (LET xs10 == agentOpts \o agentOpts IN [k10 \in 1..Len(xs10) |-> LET l == xs10[k10] IN l.content])
            logR == (LET xs11 == routingOpts \o routingOpts IN [k11 \in 1..Len(xs11) |-> LET l == xs11[k11] IN l.content])
        IN
        \* _apply_learnings_optimizations runs its two queries only when found
        /\ where \in {"agent_opt", "routing_opt"} => found
        /\ Charge(where # "none")
        /\ initial_analysis' = initial_analysis
        /\ Logged(t, RoutingErrors(c, where))
        /\ mined' = [mined EXCEPT ![t] =
                IF where = "session" THEN NotMined
                ELSE Mined(similar_patterns, agent_learnings, customer_patterns)]
        /\ IF where = "session"
           THEN /\ intelligent_routing' =
                        [intelligent_routing EXCEPT ![t] = ErrorRouting(c)]
                /\ UNCHANGED global_memory
           ELSE IF found
           THEN /\ intelligent_routing' = [intelligent_routing EXCEPT ![t] =
                        [decision EXCEPT !.optimization_applied =
                                            (agentOpts \o routingOpts) # <<>>]]
                /\ global_memory' =
                     IF logA = <<>> /\ logR = <<>> THEN global_memory
                     ELSE [k \in DOMAIN global_memory |->
                            IF k = "agent_optimizations" THEN global_memory[k] \o logA
                            ELSE IF k = "routing_optimizations" THEN global_memory[k] \o logR
                            ELSE global_memory[k]]
           ELSE /\ intelligent_routing' =
                        [intelligent_routing EXCEPT ![t] = DefaultRouting(c)]
                /\ UNCHANGED global_memory
    /\ Goto(t, "agents")
    /\ UNCHANGED <<optimizer, agent, phase, startups, store, db_id, aggregated_metrics, is_learning,
                   optimization_count, last_optimization, now, runs, conversation,
                   agent_results, learning_outcome, reg, phase_no>>

\* step 3: _route_to_specialized_agents_with_learnings
RouteToSpecializedAgents(t) ==
    /\ pc[t] = "agents"
    /\ LET c == conversation[t]
           agents == AgentsToRun(c, intelligent_routing[t])
       IN \E bad \in FaultAt(agents) :
            /\ Charge(bad # "none")
            /\ Logged(t, IF bad # "none" THEN {"_process_with_specific_agent"} ELSE {})
            /\ agent_results' = [agent_results EXCEPT ![t] =
                    [a \in agents |-> _process_with_specific_agent(c, a, a = bad)]]
    /\ Goto(t, "learn")
    /\ UNCHANGED <<initial_analysis, optimizer, agent, mined, phase, startups, store, memory,
                   now, runs, conversation, intelligent_routing, learning_outcome, reg,
                   phase_no>>

\* steps 4 and 5 up to the first write: _synthesize_agent_results and the
\* extraction part of _learn_from_conversation
LearnFromConversation(t) ==
    /\ pc[t] = "learn"
    /\ learning_outcome' = [learning_outcome EXCEPT ![t] =
            LearningOutcome(db_conversations, conversation[t],
                _synthesize_agent_results(agent_results[t], conversation[t]))]
    /\ phase_no' = [phase_no EXCEPT ![t] = 1]
    /\ Goto(t, "memory")
    /\ UNCHANGED <<observed, optimizer, agent, mined, phase, startups, faults, store, memory, now, runs, conversation,
                   intelligent_routing, agent_results, reg>>

Synthesis(t) == _synthesize_agent_results(agent_results[t], conversation[t])

\* the call is the only one the coordinator serves: no other call can run
\* between two statements of _update_global_memory
ServedAlone(t) == DOMAIN pc = {t}

\* _update_global_metrics: total_conversations = total + 1, then
\* success_rate = (success_rate + confidence) / 2
GlobalMetricsAfter(t, total) ==
    [total_conversations |-> total + 1,
     success_rate |-> IF Synthesis(t).confidence_score # 0
                      THEN (aggregated_metrics.success_rate
                                + Synthesis(t).confidence_score) \div 2
                      ELSE aggregated_metrics.success_rate]

\* _update_global_memory: the trend entry, _update_metrics_in_db and, for a
\* call served alone, _update_global_metrics
UpdateGlobalMemory(t) ==
    /\ pc[t] = "memory"
    /\ global_memory' = [global_memory EXCEPT !.conversation_trends =
            [k \in (DOMAIN @) \cup {conversation[t].id} |->
                IF k = conversation[t].id THEN conversation[t].category ELSE @[k]]]
    /\ \E fail \in MayFail :
        /\ Charge(fail)
        /\ Logged(t, IF fail THEN {"_update_metrics_in_db"} ELSE {})
        /\ db_metrics' = IF fail THEN db_metrics
                         ELSE Append(db_metrics, AgentMetric(conversation[t], Synthesis(t)))
    /\ aggregated_metrics' =
            IF ServedAlone(t)
            THEN GlobalMetricsAfter(t, aggregated_metrics.total_conversations)
            ELSE aggregated_metrics
    /\ Goto(t, IF ServedAlone(t) THEN "cycle" ELSE "metrics_read")
    /\ UNCHANGED <<initial_analysis, optimizer, agent, mined, phase, startups, db_conversations, db_learnings, db_super_agents,
                   db_id, is_learning, optimization_count,
                   last_optimization, now, runs, conversation, intelligent_routing,
                   agent_results, learning_outcome, reg, phase_no>>

\* _update_global_metrics of a call that shares the coordinator with another:
\* total_conversations += 1 reads ...
UpdateGlobalMetricsRead(t) ==
    /\ pc[t] = "metrics_read"
    /\ reg' = [reg EXCEPT ![t] = aggregated_metrics.total_conversations]
    /\ Goto(t, "metrics_write")
    /\ UNCHANGED <<observed, optimizer, agent, mined, phase, startups, faults, store, memory, now, runs, conversation,
                   intelligent_routing, agent_results, learning_outcome, phase_no>>

\* ... and writes; then the success rate
UpdateGlobalMetricsWrite(t) ==
    /\ pc[t] = "metrics_write"
    /\ aggregated_metrics' = GlobalMetricsAfter(t, reg[t])
    /\ Goto(t, "cycle")
    /\ UNCHANGED <<observed, optimizer, agent, mined, phase, startups, faults, store, db_id, global_memory, is_learning,
                   optimization_count, last_optimization, now, runs, conversation,
                   intelligent_routing, agent_results, learning_outcome, reg, phase_no>>

\* after the learning cycle of call number n of _update_global_memory
AfterCycle(n) == IF n = 1 THEN "sync" ELSE "done"

\* _has_significant_learning and the start of _trigger_learning_cycle
TriggerLearningCycle(t) ==
    /\ pc[t] = "cycle"
    /\ IF _has_significant_learning(learning_outcome[t])
       THEN /\ is_learning' = TRUE
            /\ Goto(t, "cycle_end")
       ELSE /\ UNCHANGED is_learning
            /\ Goto(t, AfterCycle(phase_no[t]))
    /\ UNCHANGED <<observed, optimizer, agent, mined, phase, startups, faults, store, db_id, global_memory,
                   aggregated_metrics, optimization_count, last_optimization, now,
                   runs, conversation, intelligent_routing, agent_results,
                   learning_outcome, reg, phase_no>>

LearningCycle(outcome) ==
    [conversations_analyzed |-> 1,
     patterns_identified |-> Len(outcome.patterns_identified),
     optimizations_applied |-> Len(outcome.agent_optimizations),
     insights_generated |-> Len(outcome.business_insights)]

\* variant: the except branch of _trigger_learning_cycle leaves the flag set
IsLearningAfterCycle_StuckOnFailure(failed) == failed

\* is_learning when _trigger_learning_cycle returns: "Marcar fin del ciclo" on
\* the normal path, and the same assignment in the except branch
IsLearningAfterCycle(failed) == FALSE

\* the end of _trigger_learning_cycle.  A sub-step that raises (the four
\* optimization steps, or building and appending the cycle record) is answered
\* by the except branch: the error is logged and no record is appended.
FinishLearningCycle(t) ==
    /\ pc[t] = "cycle_end"
    /\ \E fail \in MayFail :
        /\ Charge(fail)
        /\ Logged(t, IF fail THEN {"_trigger_learning_cycle"} ELSE {})
        /\ global_memory' =
                IF fail THEN global_memory
                ELSE [global_memory EXCEPT !.learning_cycles =
                            Append(@, LearningCycle(learning_outcome[t]))]
        /\ is_learning' = IsLearningAfterCycle(fail)
    /\ Goto(t, AfterCycle(phase_no[t]))
    /\ UNCHANGED <<initial_analysis, optimizer, agent, mined, phase, startups, store, db_id, aggregated_metrics,
                   optimization_count, last_optimization, now, runs, conversation,
                   intelligent_routing, agent_results, learning_outcome, reg, phase_no>>

\* _sync_memory_to_database (end of _learn_from_conversation)
SyncMemoryToDatabase(t) ==
    /\ pc[t] = "sync"
    /\ \E fail \in MayFail :
        /\ Charge(fail)
        /\ Logged(t, IF fail THEN {"_sync_memory_to_database"} ELSE {})
        /\ LET i == FindSuperAgentById(db_super_agents, db_id)
           IN db_super_agents' =
                IF fail \/ db_id = NoId \/ i = 0 THEN db_super_agents
                ELSE [db_super_agents EXCEPT ![i] =
                        SyncedSuperAgentRow(@, global_memory, aggregated_metrics)]
    /\ Goto(t, "save")
    /\ UNCHANGED <<initial_analysis, optimizer, agent, mined, phase, startups, db_conversations, db_learnings, db_metrics,
                   memory, now, runs, conversation, intelligent_routing,
                   agent_results, learning_outcome, reg, phase_no>>

\* the function of step 7 whose except branch runs
SaveErrors(where) ==
    IF where \in {"select", "commit"} THEN {"_save_learnings_to_db"}
    ELSE IF where = "tags" THEN {"_save_tag_learnings_to_db"}
    ELSE IF where = "patterns" THEN {"_save_pattern_learnings_to_db"}
    ELSE IF where = "insights" THEN {"_save_business_insights_to_db"}
    ELSE IF where = "super_agent" THEN {"_update_super_agent_metrics"}
    ELSE {}

\* variant: a failed learning write is not caught in _save_learnings_to_db
\* and reaches the except branch of process_conversation
AfterSaveLearnings_Propagate(where) ==
    IF where \in {"select", "commit"} THEN "failed" ELSE "metrics"

\* _save_learnings_to_db catches its own exceptions: step 8 comes next
AfterSaveLearnings(where) == "metrics"

\* step 7: _save_learnings_to_db.  `where` is the statement that raises.
SaveLearningsToDb(t) ==
    /\ pc[t] = "save"
    /\ LET c == conversation[t]
           o == learning_outcome[t]
           i == FindSuperAgentById(db_super_agents, db_id)
           existing_learning == ExistingLearning(db_learnings, c.id)
       IN
       \E where \in FaultAt({"select", "commit", "tags", "patterns", "insights",
                             "super_agent"}) :
        /\ Charge(where # "none")
        /\ Logged(t, SaveErrors(where))
        /\ Goto(t, AfterSaveLearnings(where))
        /\ IF where \in {"select", "commit"} \/ existing_learning
           THEN UNCHANGED <<db_learnings, db_super_agents>>
           ELSE /\ db_learnings' = Append(db_learnings, ConversationLearning(c, o))
                        \o (IF where = "tags" THEN <<>> ELSE TagLearnings(c))
                        \o (IF where = "patterns" THEN <<>> ELSE PatternLearnings(c, o))
                        \o (IF where = "insights" THEN <<>> ELSE InsightLearnings(c, o))
                /\ db_super_agents' =
                        IF where = "super_agent" \/ db_id = NoId \/ i = 0
                        THEN db_super_agents
                        ELSE [db_super_agents EXCEPT ![i] =
                                UpdatedSuperAgentRow(@, o, aggregated_metrics)]
    /\ UNCHANGED <<initial_analysis, optimizer, agent, mined, phase, startups, db_conversations, db_metrics, memory, now, runs,
                   conversation, intelligent_routing, agent_results,
                   learning_outcome, reg, phase_no>>

\* step 8: _update_metrics_in_db; then step 9 calls _update_global_memory again
UpdateMetricsInDb(t) ==
    /\ pc[t] = "metrics"
    /\ \E fail \in MayFail :
        /\ Charge(fail)
        /\ Logged(t, IF fail THEN {"_update_metrics_in_db"} ELSE {})
        /\ db_metrics' = IF fail THEN db_metrics
                         ELSE Append(db_metrics, AgentMetric(conversation[t], Synthesis(t)))
    /\ phase_no' = [phase_no EXCEPT ![t] = 2]
    /\ Goto(t, "memory")
    /\ UNCHANGED <<initial_analysis, optimizer, agent, mined, phase, startups, db_conversations, db_learnings, db_super_agents,
                   memory, now, runs, conversation, intelligent_routing,
                   agent_results, learning_outcome, reg>>

\* the dict process_conversation returns: the results of its steps, or the
\* error dict of its own except branch
ProcessResult(t) ==
    IF pc[t] = "failed" THEN [error |-> "exception"]
    ELSE [conversation_id |-> conversation[t].id,
          intelligent_routing |-> intelligent_routing[t],
          agent_results |-> agent_results[t],
          synthesis |-> Synthesis(t),
          learning_outcome |-> learning_outcome[t],
          optimizations_applied |-> intelligent_routing[t].optimization_applied]

\* process_conversation returns its result dict
Return(t) ==
    /\ pc[t] \in {"done", "failed"}
    /\ pc' = [pc EXCEPT ![t] = "idle"]
    /\ conversation' = [conversation EXCEPT ![t] = None]
    /\ intelligent_routing' = [intelligent_routing EXCEPT ![t] = None]
    /\ agent_results' = [agent_results EXCEPT ![t] = None]
    /\ learning_outcome' = [learning_outcome EXCEPT ![t] = None]
    /\ reg' = [reg EXCEPT ![t] = 0]
    /\ phase_no' = [phase_no EXCEPT ![t] = 0]
    /\ mined' = [mined EXCEPT ![t] = NotMined]
    /\ initial_analysis' = [initial_analysis EXCEPT ![t] = None]
    /\ errors' = [errors EXCEPT ![t] = {}]
    /\ UNCHANGED <<optimizer, agent, phase, startups, faults, store, memory, now, runs>>

\* the steps of process_conversation that are one step whoever else runs
PipelineStep(t) ==
    \/ ApplyLearningsForRouting(t)
    \/ RouteToSpecializedAgents(t)
    \/ LearnFromConversation(t)
    \/ UpdateGlobalMemory(t)
    \/ TriggerLearningCycle(t)
    \/ FinishLearningCycle(t)
    \/ SyncMemoryToDatabase(t)
    \/ SaveLearningsToDb(t)
    \/ UpdateMetricsInDb(t)
    \/ Return(t)

\* the next step of a call that is served alone
Step(t) == PipelineStep(t)

\* the next step of a call that shares the coordinator with another call
StepOverlap(t) ==
    \/ PipelineStep(t)
    \/ UpdateGlobalMetricsRead(t)
    \/ UpdateGlobalMetricsWrite(t)

\* requests are handled one at a time (the endpoints are coroutines that
\* call process_conversation without awaiting anything)
BeginAlone(c) ==
    /\ \A t \in Threads : pc[t] = "idle"
    /\ Begin(1, c)

Next ==
    \/ Construct
    \/ InitData
    \/ Shutdown
    \/ \E c \in InputConversations : BeginAlone(c)
    \/ \E t \in Threads : Step(t)

Spec == Init /\ [][Next]_vars

(***************************************************************************)
(* The optimization cycle and the clock.                                   *)
(***************************************************************************)
\* a process that has been started once and has served nothing yet
Started ==
    /\ phase = "up"
    /\ startups = 1
    /\ faults = 0
    /\ db_conversations \in Histories
    /\ db_learnings = SeedLearnings
    /\ db_metrics = <<>>
    /\ db_super_agents = <<SuperAgentRow(1)>>
    /\ db_id = 1
    /\ global_memory = FreshGlobalMemory
    /\ aggregated_metrics = FreshAggregatedMetrics
    /\ is_learning = FALSE
    /\ optimization_count = 0
    /\ last_optimization = 0
    /\ now = 0
    /\ runs = 0
    /\ NoLocals
    /\ NotOptimizing

\* one hour passes
Tick ==
    /\ now < MaxHours
    /\ now' = now + 1
    /\ UNCHANGED <<phase, startups, faults, store, memory, runs, locals, agent, optimizer,
                   observed>>

\* (now - last_optimization) in hours >= optimization_frequency
_should_optimize == now - last_optimization >= OptimizationFrequency

\* the dict {} (what a sub-step of the cycle returns from its except branch)
EmptyDict == [k \in {} |-> 0]

\* d.get(key, default)
Get(d, key, default) == IF key \in DOMAIN d THEN d[key] ELSE default

\* _analyze_system_performance: the performance dict, or {} when it raised
_analyze_system_performance(fail) ==
    IF fail THEN EmptyDict
    ELSE [total_conversations |-> aggregated_metrics.total_conversations,
          success_rate |-> aggregated_metrics.success_rate,
          learning_cycles |-> Len(global_memory.learning_cycles),
          optimization_count |-> optimization_count]

\* _optimize_agent_performance: the optimizations it proposes ([] when it raised)
_optimize_agent_performance(performance, fail) ==
    IF fail THEN <<>>
    ELSE IF Get(performance, "success_rate", 0) < 70
         THEN <<"agent_performance_optimization">> ELSE <<>>

\* _optimize_conversation_routing: the optimizations it proposes ([] when it raised)
_optimize_conversation_routing(performance, fail) ==
    IF fail THEN <<>>
    ELSE IF Get(performance, "learning_cycles", 0) > 10
         THEN <<"routing_optimization">> ELSE <<>>

\* _optimize_memory_usage: the optimizations it proposes (nothing is removed;
\* [] when it raised)
_optimize_memory_usage(fail) ==
    IF fail THEN <<>>
    ELSE IF Cardinality(DOMAIN global_memory.conversation_trends) > TrendLimit
         THEN <<"memory_cleanup">> ELSE <<>>

\* _estimate_optimization_impact: 0.15, or 0.0 from its except branch
_estimate_optimization_impact(fail) == IF fail THEN 0 ELSE ExpectedImprovement

\* the record _run_optimization_cycle appends to optimization_history;
\* `where` is the sub-step that raised
OptimizationRecord(performance, where) ==
    [timestamp |-> now,
     performance_metrics |-> performance,
     agents |-> Len(_optimize_agent_performance(performance, where = "agents")),
     routing |-> Len(_optimize_conversation_routing(performance, where = "routing")),
     memory |-> Len(_optimize_memory_usage(where = "memory")),
     expected_improvement |-> _estimate_optimization_impact(where = "estimate")]

\* the function whose except branch logs when the sub-step `where` raises
CycleErrors(where) ==
    IF where = "agents" THEN {"_optimize_agent_performance"}
    ELSE IF where = "routing" THEN {"_optimize_conversation_routing"}
    ELSE IF where = "memory" THEN {"_optimize_memory_usage"}
    ELSE IF where = "apply" THEN {"_apply_system_optimizations"}
    ELSE IF where = "estimate" THEN {"_estimate_optimization_impact"}
    ELSE {}

\* POST /super-agent/optimize: trigger_optimization_cycle calls
\* _run_optimization_cycle, which starts a cycle whenever it is called; its
\* first step is the performance analysis
TriggerOptimization ==
    /\ phase = "up"
    /\ ~optimizing
    /\ optimization_count < MaxOptimizations
    /\ optimizing' = TRUE
    /\ \E fail \in MayFail :
        /\ Charge(fail)
        /\ performance_analysis' = _analyze_system_performance(fail)
        /\ cycle_errors' = IF fail THEN {"_analyze_system_performance"} ELSE {}
    /\ UNCHANGED <<phase, startups, store, memory, now, runs, locals, agent,
                   observed>>

\* variant: a sub-step that raises ends the cycle in the except branch of
\* _run_optimization_cycle, before the record is appended
OptimizationHistoryAfter_AbortOnFailure(history, record, errors_) ==
    IF errors_ # {} THEN history ELSE Append(history, record)

\* variant: the history keeps only the latest record
OptimizationHistoryAfter_KeepLast(history, record, errors_) == <<record>>

\* optimization_history when _run_optimization_cycle returns: every sub-step
\* catches its own exception, so the record is appended whatever they logged
OptimizationHistoryAfter(history, record, errors_) == Append(history, record)

\* the rest of _run_optimization_cycle: the optimizations are computed and
\* applied, the record is appended, last_optimization and the count advance
RunOptimizationCycle ==
    /\ optimizing
    /\ \E where \in FaultAt({"agents", "routing", "memory", "apply", "estimate"}) :
        /\ Charge(where # "none")
        /\ cycle_errors' = cycle_errors \cup CycleErrors(where)
        /\ global_memory' = [global_memory EXCEPT !.optimization_history =
                OptimizationHistoryAfter(@, OptimizationRecord(performance_analysis, where),
                                         cycle_errors')]
    /\ last_optimization' = now
    /\ optimization_count' = optimization_count + 1
    /\ optimizing' = FALSE
    /\ performance_analysis' = NoPerformanceAnalysis
    /\ UNCHANGED <<phase, startups, store, db_id, aggregated_metrics,
                   is_learning, now, runs, locals, agent, observed>>

\* SuperAgent.get_system_status (the fields that depend on the state)
get_system_status ==
    [status |-> IF ~is_learning THEN "active" ELSE "learning",
     learning_cycles |-> Len(global_memory.learning_cycles),
     optimization_count |-> optimization_count,
     last_optimization |-> last_optimization,
     is_learning |-> is_learning,
     next_optimization |-> last_optimization + OptimizationFrequency]

InitOpt ==
    /\ Started
    /\ FreshAgent("coordinator")
    /\ delivery = NoDelivery

NextOpt == Tick \/ TriggerOptimization \/ RunOptimizationCycle

SpecOpt == InitOpt /\ [][NextOpt]_vars

\* time passes and a cycle that has started runs to its end; whether anybody
\* calls the endpoint is up to the clients
SpecOptFair == SpecOpt /\ WF_vars(Tick) /\ WF_vars(RunOptimizationCycle)

(***************************************************************************)
(* The optimization cycle on a coordinator that has served conversations.  *)
(***************************************************************************)
\* the id of the i-th conversation served: "c" and four decimal digits
ServedId(i) ==
    <<"c", ToString(i \div 1000), ToString((i \div 100) % 10),
      ToString((i \div 10) % 10), ToString(i % 10)>>

\* the in-memory state after n calls (n >= TrendLimit) of process_conversation, each for a new
\* "ventas" conversation without tags, sentiment or customer: every call
\* writes its trend entry, counts twice and runs its learning cycle twice
ServedMemory(n) ==
    LET c == Conversation(ServedId(1), "ventas", <<>>, None, None)
        results == [a \in {"ventas"} |-> _process_with_specific_agent(c, a, FALSE)]
        synthesis == _synthesize_agent_results(results, c)
        outcome == LearningOutcome(<<>>, c, synthesis)
        cycles == IF _has_significant_learning(outcome) THEN 2 * n ELSE 0
        \* success_rate = (success_rate + confidence) / 2, twice per call: the
        \* values rise from 0 and stay at the first value the update leaves
        \* unchanged (reached long before TrendLimit calls)
        settled(r) == r = (r + synthesis.confidence_score) \div 2
        rate == CHOOSE r \in 0..100 : settled(r) /\ \A q \in 0..(r - 1) : ~settled(q)
    IN /\ global_memory =
            [FreshGlobalMemory EXCEPT
                !.conversation_trends = [id \in { ServedId(i) : i \in 1..n } |-> "ventas"],
                !.learning_cycles = [j \in 1..cycles |-> LearningCycle(outcome)]]
       /\ aggregated_metrics =
            [total_conversations |-> 2 * n, success_rate |-> rate]

\* a process started once that has served TrendLimit or MaxTrends distinct
\* conversations while the store could not be written (every failed write is
\* caught and logged, the in-memory updates are kept)
InitCache ==
    /\ phase = "up"
    /\ startups = 1
    /\ faults = 0
    /\ db_conversations = <<>>
    /\ db_learnings = SeedLearnings
    /\ db_metrics = <<>>
    /\ db_super_agents = <<SuperAgentRow(1)>>
    /\ db_id = 1
    /\ \E n \in {TrendLimit, MaxTrends} : ServedMemory(n) /\ runs = n
    /\ is_learning = FALSE
    /\ optimization_count = 0
    /\ last_optimization = 0
    /\ now = 0
    /\ NoLocals
    /\ NotOptimizing
    /\ FreshAgent("coordinator")
    /\ delivery = NoDelivery

SpecCache == InitCache /\ [][NextOpt]_vars

(***************************************************************************)
(* One process lifetime: a coordinator that was started once serves        *)
(* conversations; store accesses and handlers may fail.                    *)
(***************************************************************************)
\* the process is up after its one startup; agent_learnings holds the seed
\* rows, or nothing when init_agent_learnings failed (it swallows its errors)
InitServe ==
    /\ phase = "up"
    /\ startups = 1
    /\ faults = 0
    /\ db_conversations \in Histories
    /\ db_learnings \in {<<>>, SeedLearnings}
    /\ db_metrics = <<>>
    /\ db_super_agents = <<SuperAgentRow(1)>>
    /\ db_id = 1
    /\ global_memory = FreshGlobalMemory
    /\ aggregated_metrics = FreshAggregatedMetrics
    /\ is_learning = FALSE
    /\ optimization_count = 0
    /\ last_optimization = 0
    /\ now = 0
    /\ runs = 0
    /\ NoLocals
    /\ NotOptimizing
    /\ FreshAgent("coordinator")
    /\ delivery = NoDelivery

NextServe ==
    \/ \E c \in InputConversations : BeginAlone(c)
    \/ \E t \in Threads : Step(t)

SpecServe == InitServe /\ [][NextServe]_vars

(***************************************************************************)
(* Conversations, optimization cycles and memory resets on one coordinator.*)
(***************************************************************************)
\* the dict POST /super-agent/reset-memory assigns to global_memory (the
\* sections the model keeps; it has no agent_optimizations and no
\* routing_optimizations)
ResetGlobalMemory ==
    [conversation_trends |-> <<>>,
     learning_cycles |-> <<>>,
     optimization_history |-> <<>>]

\* POST /super-agent/reset-memory: reset_global_memory
ResetMemory ==
    /\ phase = "up"
    /\ global_memory' = ResetGlobalMemory
    /\ aggregated_metrics' = FreshAggregatedMetrics
    /\ UNCHANGED <<phase, startups, faults, store, db_id, is_learning, optimization_count,
                   last_optimization, now, runs, locals, agent, optimizer, observed>>

\* agent_learnings rows of the two types the routing step queries for
\* (_optimize_agent_parameters_from_learnings, _optimize_routing_from_learnings)
OptimizationLearnings ==
    << AgentLearning("sales", "agent_optimization", <<"tono">>, 90, "ventas", NoConversation),
       AgentLearning("coordinator", "routing_optimization", <<"ruta">>, 80, "ventas", NoConversation) >>

\* a process started once whose agent_learnings table also holds
\* optimization rows; the store and the handlers work throughout (no failure
\* is injected: the budget is spent)
InitOps ==
    /\ phase = "up"
    /\ startups = 1
    /\ faults = MaxFaults
    /\ db_conversations \in Histories
    /\ db_learnings = SeedLearnings \o OptimizationLearnings
    /\ db_metrics = <<>>
    /\ db_super_agents = <<SuperAgentRow(1)>>
    /\ db_id = 1
    /\ global_memory = FreshGlobalMemory
    /\ aggregated_metrics = FreshAggregatedMetrics
    /\ is_learning = FALSE
    /\ optimization_count = 0
    /\ last_optimization = 0
    /\ now = 0
    /\ runs = 0
    /\ NoLocals
    /\ NotOptimizing
    /\ FreshAgent("coordinator")
    /\ delivery = NoDelivery

\* the endpoints are coroutines that call the coordinator without awaiting:
\* a request starts when no other request is being served
Quiet == (\A t \in Threads : pc[t] = "idle") /\ ~optimizing

NextOps ==
    \/ (Quiet /\ \E c \in InputConversations : BeginAlone(c))
    \/ \E t \in Threads : Step(t)
    \/ (Quiet /\ TriggerOptimization)
    \/ RunOptimizationCycle
    \/ (Quiet /\ ResetMemory)

SpecOps == InitOps /\ [][NextOps]_vars

(***************************************************************************)
(* Two overlapping calls of process_conversation on the one coordinator    *)
(* object (the class holds no lock; this is what two threads sharing the   *)
(* module-level instance do).                                              *)
(***************************************************************************)
Callers == {"first", "second"}

\* a process started once; no failure is injected (the budget is spent)
InitOverlap ==
    /\ phase = "up"
    /\ startups = 1
    /\ faults = MaxFaults
    /\ db_conversations = <<>>
    /\ db_learnings = SeedLearnings
    /\ db_metrics = <<>>
    /\ db_super_agents = <<SuperAgentRow(1)>>
    /\ db_id = 1
    /\ global_memory = FreshGlobalMemory
    /\ aggregated_metrics = FreshAggregatedMetrics
    /\ is_learning = FALSE
    /\ optimization_count = 0
    /\ last_optimization = 0
    /\ now = 0
    /\ runs = 0
    /\ pc = [t \in Callers |-> "idle"]
    /\ conversation = [t \in Callers |-> None]
    /\ intelligent_routing = [t \in Callers |-> None]
    /\ agent_results = [t \in Callers |-> None]
    /\ learning_outcome = [t \in Callers |-> None]
    /\ reg = [t \in Callers |-> 0]
    /\ phase_no = [t \in Callers |-> 0]
    /\ mined = [t \in Callers |-> NotMined]
    /\ initial_analysis = [t \in Callers |-> None]
    /\ errors = [t \in Callers |-> {}]
    /\ NotOptimizing
    /\ FreshAgent("coordinator")
    /\ delivery = NoDelivery

NextOverlap ==
    \/ \E t \in Callers, c \in InputConversations : Begin(t, c)
    \/ \E t \in Callers : StepOverlap(t)

SpecOverlap == InitOverlap /\ [][NextOverlap]_vars

(***************************************************************************)
(* BaseAgent: learning from a conversation handed over by the manager.     *)
(***************************************************************************)
\* the dict forms of the conversations, and what the outcome says about
\* success_rate (absent, 0.4 or 0.9)
Outcome(has, rate) == [has_success_rate |-> has, success_rate |-> rate]

Deliveries ==
    { [conversation |-> c, outcome |-> o] :
        c \in InputConversations,
        o \in {Outcome(FALSE, 0), Outcome(TRUE, 40), Outcome(TRUE, 90)} }

\* outcome.get("success_rate", default)
SuccessRateOr(outcome, default) ==
    IF outcome.has_success_rate THEN outcome.success_rate ELSE default

\* BaseAgent._identify_conversation_patterns
AgentPatterns(c, outcome) ==
    (IF c.category # None THEN <<"category_pattern">> ELSE <<>>)
    \o (LET xs12 == Take(c.tags, TagLimit) IN [k12 \in 1..Len(xs12) |-> LET tag == xs12[k12] IN "tag_pattern"])
    \o (IF c.sentiment # None THEN <<"sentiment_pattern">> ELSE <<>>)
    \o (IF SuccessRateOr(outcome, 0) # 0 THEN <<"outcome_pattern">> ELSE <<>>)

_generate_improvement_suggestions(c, outcome) ==
    (IF SuccessRateOr(outcome, 0) < 70 THEN <<"performance_improvement">> ELSE <<>>)
    \o (IF c.category = "soporte" THEN <<"specialization_improvement">> ELSE <<>>)
    \o (IF "error" \in Range(c.tags) THEN <<"knowledge_improvement">> ELSE <<>>)

_adjust_confidence_levels(outcome) ==
    IF SuccessRateOr(outcome, 50) > 80 THEN <<"confidence_increase">>
    ELSE IF SuccessRateOr(outcome, 50) < 50 THEN <<"confidence_decrease">>
    ELSE <<>>

\* specialization_areas after _update_specialization_areas
_update_specialization_areas(areas, c, outcome) ==
    LET byCategory ==
            IF SuccessRateOr(outcome, 0) > 80 /\ c.category # None
               /\ c.category \notin Range(areas)
            THEN Append(areas, c.category) ELSE areas
        tags2 == IF SuccessRateOr(outcome, 0) > 70 THEN Take(c.tags, 2) ELSE <<>>
        byTags[k \in 0..Len(tags2)] ==
            IF k = 0 THEN byCategory
            ELSE IF tags2[k] \in Range(byTags[k - 1]) THEN byTags[k - 1]
                 ELSE Append(byTags[k - 1], tags2[k])
    IN byTags[Len(tags2)]

\* the row _save_learning_to_db writes
AgentLearningRow(type, id) ==
    AgentLearning(type, "agent_learning", <<"Agente aprendio de conversacion ">> \o id,
                  80, "agent_learning", id)

\* variant: the buffer is never cut
_update_local_memory_NoTrim(history, entry) == Append(history, entry)

\* variant: at capacity the newest entry is dropped instead of the oldest
_update_local_memory_KeepOldest(history, entry) ==
    LET h == Append(history, entry)
    IN IF Len(h) > HistoryLimit THEN SubSeq(h, 1, HistoryLimit) ELSE h

\* learning_history after _update_local_memory: append, keep the last 100
_update_local_memory(history, entry) ==
    LET h == Append(history, entry)
    IN IF Len(h) > HistoryLimit
       THEN SubSeq(h, Len(h) - HistoryLimit + 1, Len(h))
       ELSE h

\* BaseAgent.learn_from_conversation(conversation, outcome)
learn_from_conversation ==
    /\ phase = "up"
    /\ runs < MaxLearnings
    /\ runs' = runs + 1
    /\ LET c == delivery.conversation
           o == delivery.outcome
           patterns == AgentPatterns(c, o)
           improvements == _generate_improvement_suggestions(c, o)
           \* datetime.now() of this event: a later event carries a later
           \* timestamp (the ordinal of the event stands for it)
           entry == [timestamp |-> runs + 1, conversation_id |-> c.id,
                     patterns |-> patterns, improvements |-> improvements,
                     confidence_adjustments |-> _adjust_confidence_levels(o)]
       IN /\ specialization_areas' = _update_specialization_areas(specialization_areas, c, o)
          /\ \E fail \in MayFail :
                /\ Charge(fail)
                /\ db_learnings' = IF fail THEN db_learnings
                                   ELSE Append(db_learnings, AgentLearningRow(agent_type, c.id))
          /\ learning_history' = _update_local_memory(learning_history, entry)
          /\ performance_metrics' =
                [patterns_identified |-> performance_metrics.patterns_identified + Len(patterns),
                 improvements_suggested |->
                    performance_metrics.improvements_suggested + Len(improvements)]
    /\ UNCHANGED <<phase, startups, db_conversations, db_metrics, db_super_agents,
                   memory, now, locals, agent_type, delivery, optimizer, observed>>

InitAgents ==
    /\ Started
    /\ \E type \in available_agents : FreshAgent(type)
    /\ delivery \in Deliveries

NextAgents == learn_from_conversation

SpecAgents == InitAgents /\ [][NextAgents]_vars

(***************************************************************************)
(* Properties of the routing step.                                         *)
(***************************************************************************)
\* the call holds the decision of step 2 in intelligent_routing
HasRouting(t) == pc[t] \notin {"idle", "route"}

\* C1: for every conversation and every state of the store, a failing store
\* included, the decision returned by the routing step names at least one
\* agent and carries a confidence between 0 and 1 (0..100 here).
C1_RoutingDecisionWellFormed ==
    \A t \in Threads : HasRouting(t) =>
        /\ intelligent_routing[t].recommended_agents # <<>>
        /\ intelligent_routing[t].confidence_score >= 0
        /\ intelligent_routing[t].confidence_score <= 100

\* a learning-based decision in which no mined pattern passed its threshold:
\* only the appended coordinator is recommended
C1_Witness ==
    \E t \in Threads :
        /\ HasRouting(t)
        /\ intelligent_routing[t].learning_based
        /\ intelligent_routing[t].patterns_used = <<>>
        /\ intelligent_routing[t].recommended_agents = <<"coordinator">>

\* the finders ran and all three returned the empty list
NoPatternFound(t) ==
    /\ mined[t].ran
    /\ mined[t].similar_patterns = <<>>
    /\ mined[t].agent_learnings = <<>>
    /\ mined[t].customer_patterns = <<>>

\* C2: when mining finds no similar conversation, no agent learning and no
\* customer-success pattern, the decision is exactly
\* [conversation.category, "coordinator"], 0.5, not learning based.
C2_NoPatternFallback ==
    \A t \in Threads : (HasRouting(t) /\ NoPatternFound(t)) =>
        /\ intelligent_routing[t].recommended_agents =
                <<conversation[t].category, "coordinator">>
        /\ intelligent_routing[t].confidence_score = 50
        /\ intelligent_routing[t].learning_based = FALSE

\* the scenario of the specification: category "ventas", no tags, no
\* sentiment, empty history
C2_Witness ==
    \E t \in Threads :
        /\ HasRouting(t)
        /\ NoPatternFound(t)
        /\ db_conversations = <<>>
        /\ conversation[t].category = "ventas"
        /\ conversation[t].tags = <<>>
        /\ conversation[t].sentiment = None
        /\ intelligent_routing[t].recommended_agents = <<"ventas", "coordinator">>
        /\ intelligent_routing[t].confidence_score = 50
        /\ ~intelligent_routing[t].learning_based

(***************************************************************************)
(* Properties of learning persistence.                                     *)
(***************************************************************************)
\* C3: in every reachable state of the store there is at most one learning
\* row for each (agent_type, learning_type, conversation_id).
C3_AtMostOneLearningPerTriple ==
    \A i, j \in 1..Len(db_learnings) :
        ( /\ db_learnings[i].conversation_id # NoConversation
          /\ db_learnings[i].agent_type = db_learnings[j].agent_type
          /\ db_learnings[i].learning_type = db_learnings[j].learning_type
          /\ db_learnings[i].conversation_id = db_learnings[j].conversation_id )
        => i = j

\* some learning row was written for this conversation id
LearnedBefore(id) ==
    \E i \in 1..Len(db_learnings) : db_learnings[i].conversation_id = id

\* C4: a pipeline run for a conversation id that already has learning rows
\* adds no learning row (its save step leaves agent_learnings as it was).
C4_SecondRunAddsNoLearning ==
    [][\A t \in Threads :
          (pc[t] = "save" /\ pc'[t] # "save" /\ LearnedBefore(conversation[t].id))
          => db_learnings' = db_learnings]_vars

\* C5: once every call of a coordinator has completed, its total-conversations
\* counter has risen by exactly the number of calls.
C5_CounterEqualsCalls ==
    (startups = 1 /\ \A t \in Threads : pc[t] = "idle")
    => aggregated_metrics.total_conversations = runs

\* C8: when a recommended handler has failed, it alone holds an error result
\* and every recommended handler has been executed (has a result).
C8_RemainingHandlersExecuted ==
    \A t \in Threads :
        (pc[t] \in {"learn", "done"}
         /\ \E a \in DOMAIN agent_results[t] : "error" \in DOMAIN agent_results[t][a])
        => Range(intelligent_routing[t].recommended_agents) \subseteq DOMAIN agent_results[t]

\* C9: when a call has gone through all its steps, either every side effect
\* of the conversation is in place (learning row, metric row, memory entry)
\* or none is.
C9_AllOrNothing ==
    \A t \in Threads : pc[t] = "done" =>
        LET id == conversation[t].id
            learned == LearnedBefore(id)
            measured == \E i \in 1..Len(db_metrics) : db_metrics[i].conversation_id = id
            counted == id \in DOMAIN global_memory.conversation_trends
        IN \/ learned /\ measured /\ counted
           \/ ~learned /\ ~measured /\ ~counted

(***************************************************************************)
(* Properties of the optimization cycle and of startup.                    *)
(***************************************************************************)
\* C6: two optimization triggers inside one optimization_frequency window
\* apply one cycle only, so consecutive entries of optimization_history are
\* at least optimization_frequency hours apart.
C6_OneOptimizationPerWindow ==
    LET h == global_memory.optimization_history
    IN \A i \in 2..Len(h) : h[i].timestamp - h[i - 1].timestamp >= OptimizationFrequency

\* C10: after any sequence of startups the store holds exactly one
\* super_agents row: the first startup creates it, later ones find and
\* reuse it (the coordinator points at it), and it is never removed.
C10_ExactlyOneSuperAgentRow ==
    /\ Len(db_super_agents) <= 1
    /\ \A i \in 1..Len(db_super_agents) : db_super_agents[i].id = 1
    /\ phase = "up" => (Len(db_super_agents) = 1 /\ db_id = db_super_agents[1].id)
    /\ startups > 1 => Len(db_super_agents) = 1

\* a second startup has completed on the row the first one created and the
\* pipeline has updated
C10_Witness ==
    /\ startups = 2
    /\ phase = "up"
    /\ Len(db_super_agents) = 1
    /\ db_super_agents[1].total_conversations_processed > 0

(***************************************************************************)
(* Properties of the agent learning buffer.                                *)
(***************************************************************************)
\* C7: in every reachable state an agent's learning_history holds at most
\* 100 entries, however many learning events were appended.
C7_LearningHistoryBounded == Len(learning_history) <= 100

\* more than 100 events were appended and the buffer is full
C7_Witness == runs > 100 /\ Len(learning_history) = 100

(***************************************************************************)
(* Properties of the status query.                                         *)
(***************************************************************************)
\* C11: in every state between the start and the end of
\* _run_optimization_cycle the status reported by get_system_status is not
\* "active".
C11_StatusBusyWhileOptimizing ==
    optimizing => get_system_status.status # "active"

(***************************************************************************)
(* Properties of process_conversation under failures.                      *)
(***************************************************************************)
\* the functions that write learning rows, metric rows or the state row
PersistenceFunctions ==
    {"_save_learnings_to_db", "_save_tag_learnings_to_db",
     "_save_pattern_learnings_to_db", "_save_business_insights_to_db",
     "_update_super_agent_metrics", "_update_metrics_in_db",
     "_sync_memory_to_database"}

\* the call is at its return statement with a result that is not the error dict
ReturnsResults(t) ==
    /\ "error" \notin DOMAIN ProcessResult(t)
    /\ ProcessResult(t).intelligent_routing.recommended_agents # <<>>
    /\ DOMAIN ProcessResult(t).agent_results # {}
    /\ ProcessResult(t).synthesis.agent_participation
            = DOMAIN ProcessResult(t).agent_results

\* C12: a call in which a write of learning rows, metric rows or the state
\* row failed never takes the error exit of process_conversation, and returns
\* the routing decision, the agent results and the synthesis.
C12_PersistenceFailureStillReturns ==
    \A t \in Threads : (errors[t] \cap PersistenceFunctions # {}) =>
        /\ pc[t] # "failed"
        /\ pc[t] = "done" => ReturnsResults(t)

\* the learning write failed and the call is about to return its results
C12_Witness ==
    \E t \in Threads :
        /\ pc[t] = "done"
        /\ "_save_learnings_to_db" \in errors[t]
        /\ ~LearnedBefore(conversation[t].id)
        /\ ReturnsResults(t)

\* the store failed during step 2: the session could not be opened, or every
\* query of the finders raised
StoreUnavailableInRouting(t) ==
    \/ "_apply_learnings_for_routing" \in errors[t]
    \/ {"_find_similar_conversation_patterns", "_find_agent_learnings_for_category"}
            \subseteq errors[t]

\* C13: when the store is unavailable during the routing step the decision is
\* the no-pattern fallback: [conversation.category, "coordinator"], 0.5, not
\* learning based.
C13_StoreUnavailableFallback ==
    \A t \in Threads : (HasRouting(t) /\ StoreUnavailableInRouting(t)) =>
        /\ intelligent_routing[t].recommended_agents =
                <<conversation[t].category, "coordinator">>
        /\ intelligent_routing[t].confidence_score = 50
        /\ intelligent_routing[t].learning_based = FALSE

\* the customer reference of the call is absent or not a valid UUID
InvalidCustomerReference(t) ==
    conversation[t].customer_id = None \/ ~_is_valid_uuid(conversation[t].customer_id)

PriorTagged(t) ==
    { i \in 1..Len(db_conversations) :
        /\ db_conversations[i].id # conversation[t].id
        /\ Range(db_conversations[i].tags)
                \cap Range(Take(conversation[t].tags, TagLimit)) # {}
        /\ _get_conversation_success_rate(db_conversations[i].id) > SimilarSuccessThreshold }

\* C15: when the history holds successful conversations with one of the new
\* conversation's first three tags (and no store access failed), the decision
\* recommends their category and its confidence is at least 0.6.
C15_TagSimilarityRecommendsCategory ==
    \A t \in Threads : (HasRouting(t) /\ faults = 0 /\ PriorTagged(t) # {}) =>
        /\ \E i \in PriorTagged(t) :
                db_conversations[i].category
                    \in Range(intelligent_routing[t].recommended_agents)
        /\ intelligent_routing[t].confidence_score >= 60

(***************************************************************************)
(* Properties of the optimization schedule.                                *)
(***************************************************************************)
\* C16: once now - last_optimization >= optimization_frequency holds and no
\* cycle has run yet, an optimization cycle eventually runs (and advances
\* last_optimization), whether or not a client triggers one.
C16_OptimizationEventuallyRuns ==
    (_should_optimize /\ optimization_count = 0)
        ~> (optimization_count > 0 /\ ~_should_optimize)

(***************************************************************************)
(* Properties of the recommended agents.                                   *)
(***************************************************************************)
\* C17: in every learning-based decision the duplicate-free list of
\* recommended agents holds at least two agents or holds "coordinator".
C17_FallbackAfterDeduplication ==
    \A t \in Threads : (HasRouting(t) /\ intelligent_routing[t].learning_based) =>
        \/ Cardinality(Range(intelligent_routing[t].recommended_agents)) >= 2
        \/ "coordinator" \in Range(intelligent_routing[t].recommended_agents)

\* C18: when process_conversation returns, agent_results has an entry for
\* every agent named in the decision's recommended_agents.
C18_EveryRecommendedHandlerExecuted ==
    \A t \in Threads : pc[t] = "done" =>
        Range(ProcessResult(t).intelligent_routing.recommended_agents)
            \subseteq DOMAIN ProcessResult(t).agent_results

(***************************************************************************)
(* Properties of the confidence of a learning-based decision.              *)
(***************************************************************************)
\* the pattern sources of a decision, in the order the code consults them
PatternSources ==
    <<"conversation_similarity", "agent_learnings", "customer_success_patterns">>

\* the mined lists of the call hold an entry above the threshold of source s
Contributed(t, s) ==
    IF s = "conversation_similarity"
    THEN \E i \in 1..Len(mined[t].similar_patterns) :
            mined[t].similar_patterns[i].success_rate > SimilarSuccessThreshold
    ELSE IF s = "agent_learnings"
    THEN \E i \in 1..Len(mined[t].agent_learnings) :
            mined[t].agent_learnings[i].confidence_score > AgentLearningThreshold
    ELSE \E i \in 1..Len(mined[t].customer_patterns) :
            mined[t].customer_patterns[i].success_rate > CustomerSuccessThreshold

\* C21: in a learning-based decision confidence_score is
\* min(0.9, 0.5 + 0.1 * |patterns_used|), and patterns_used holds each of the
\* three sources at most once, and exactly when the mined list of that source
\* has an entry above its threshold (0.7, 0.8, 0.8).
C21_ConfidenceFromPatternsUsed ==
    \A t \in Threads : (HasRouting(t) /\ intelligent_routing[t].learning_based) =>
        LET used == intelligent_routing[t].patterns_used
        IN /\ intelligent_routing[t].confidence_score
                = Min(90, 50 + 10 * Len(used))
           /\ Range(used) \subseteq Range(PatternSources)
           /\ Cardinality(Range(used)) = Len(used)
           /\ \A s \in Range(PatternSources) : s \in Range(used) <=> Contributed(t, s)

\* the similar conversations and the agent learnings both contributed an
\* agent: two patterns used, confidence 0.7
C21_Witness ==
    \E t \in Threads :
        /\ HasRouting(t)
        /\ intelligent_routing[t].learning_based
        /\ intelligent_routing[t].patterns_used
                = <<"conversation_similarity", "agent_learnings">>
        /\ intelligent_routing[t].confidence_score = 70

\* the functions the decision step calls with the session after mining: each
\* runs a query on agent_learnings
DecisionQueries ==
    {"_optimize_agent_parameters_from_learnings", "_optimize_routing_from_learnings"}

\* the decision as a function of the conversation and the mined lists alone
DecisionFromMined(c, m) ==
    IF m.similar_patterns # <<>> \/ m.agent_learnings # <<>> \/ m.customer_patterns # <<>>
    THEN _make_intelligent_routing_decision(c, m.similar_patterns, m.agent_learnings,
                                            m.customer_patterns)
    ELSE DefaultRouting(c)

\* C22: the step that turns the mined patterns into the decision is pure: no
\* store query of it can fail (it performs none), it leaves global_memory,
\* aggregated_metrics, is_learning and the optimization counters unchanged,
\* and the decision is a function of the conversation and the mined patterns.
C22_DecisionIsPure ==
    [][\A t \in Threads : (pc[t] = "route" /\ pc'[t] = "agents") =>
          /\ errors'[t] \cap DecisionQueries = {}
          /\ UNCHANGED <<global_memory, aggregated_metrics, is_learning,
                         optimization_count, last_optimization>>
          /\ mined'[t].ran =>
                intelligent_routing'[t] = DecisionFromMined(conversation[t], mined'[t])]_vars

(***************************************************************************)
(* Properties of the learning flag.                                        *)
(***************************************************************************)
\* C23: is_learning is set only between the start and the end of
\* _trigger_learning_cycle: when the cycle has returned, normally or through
\* its except branch, the flag is false, so the status is "active" whenever a
\* call is at its return statement and whenever no call is running.
C23_LearningCycleReturnsToIdle ==
    /\ is_learning => \E t \in Threads : pc[t] = "cycle_end"
    /\ \A t \in Threads : pc[t] = "done" => get_system_status.status = "active"
    /\ (\A t \in Threads : pc[t] = "idle") => get_system_status.status = "active"

\* a call is at its return statement after one of its learning cycles
\* completed and the other one failed in a sub-step
C23_Witness ==
    \E t \in Threads :
        /\ pc[t] = "done"
        /\ "_trigger_learning_cycle" \in errors[t]
        /\ Len(global_memory.learning_cycles) = 1
        /\ get_system_status.status = "active"

(***************************************************************************)
(* Properties of the metric rows.                                          *)
(***************************************************************************)
\* the rows of agent_metrics written for this conversation id
MetricRows(id) == { i \in 1..Len(db_metrics) : db_metrics[i].conversation_id = id }

\* C24: whenever a call is at its return statement, after one run or several
\* for the same conversation id, the store holds exactly one metric row for
\* that id.
C24_OneMetricRowPerConversation ==
    \A t \in Threads : pc[t] = "done" =>
        Cardinality(MetricRows(conversation[t].id)) = 1

TagQueryFailed(t) ==
    /\ conversation[t].tags # <<>>
    /\ "_find_similar_conversation_patterns" \in errors[t]
    /\ "_apply_learnings_for_routing" \notin errors[t]

\* the category+sentiment matches for the conversation: what the finder
\* returns when there is no tag to look for
CategorySentimentMatches(conversations, c) ==
    _find_similar_conversation_patterns(conversations, [c EXCEPT !.tags = <<>>], FALSE)

\* C26: when the tag-similarity query of a call has failed, the mined
\* patterns still hold every category+sentiment match of the conversation,
\* and the agent learnings of its category are still returned.
C26_TagQueryFailureIsolated ==
    \A t \in Threads : (pc[t] = "agents" /\ TagQueryFailed(t)) =>
        /\ Range(CategorySentimentMatches(db_conversations, conversation[t]))
                \subseteq Range(mined[t].similar_patterns)
        /\ "_find_agent_learnings_for_category" \notin errors[t] =>
                mined[t].agent_learnings =
                    _find_agent_learnings_for_category(db_learnings,
                        conversation[t].category, FALSE)

(***************************************************************************)
(* Properties of the synthesis.                                            *)
(***************************************************************************)
\* C27: when a call returns, the confidence_score of its synthesis is the mean
\* of the confidence scores of the handler results that are not errors, and
\* 0.5 when every handler result is an error.
C27_SynthesisConfidenceIsMean ==
    \A t \in Threads : pc[t] = "done" =>
        LET results == ProcessResult(t).agent_results
            ok == { a \in DOMAIN results : "error" \notin DOMAIN results[a] }
            sum[S \in SUBSET ok] ==
                IF S = {} THEN 0
                ELSE LET a == CHOOSE x \in S : TRUE
                     IN results[a].confidence_score + sum[S \ {a}]
            score == ProcessResult(t).synthesis.confidence_score
        IN IF ok = {} THEN score = 50
           ELSE score * Cardinality(ok) = sum[ok]

(***************************************************************************)
(* Properties of the handlers' learning.                                   *)
(***************************************************************************)
\* C28: when a call is at its return statement and the agent was one of the
\* handlers that processed the conversation (its result is not an error), the
\* agent's learning buffer holds a learning event for that conversation.
C28_HandlerLearnsFromCall ==
    \A t \in Threads :
        ( /\ pc[t] = "done"
          /\ agent_type \in DOMAIN agent_results[t]
          /\ "error" \notin DOMAIN agent_results[t][agent_type] )
        => \E i \in 1..Len(learning_history) :
                learning_history[i].conversation_id = conversation[t].id

\* C29: after n learning events were appended one at a time, the agent's
\* buffer holds exactly the most recent min(n, 100) of them, in append order
\* (the i-th entry is event number n - length + i).
C29_BufferEvictionIsFifo ==
    /\ Len(learning_history) = Min(runs, 100)
    /\ \A i \in 1..Len(learning_history) :
            learning_history[i].timestamp = runs - Len(learning_history) + i

\* 102 events were appended: the two oldest are gone, the newest is last
C29_Witness ==
    /\ runs = 102
    /\ Len(learning_history) = 100
    /\ learning_history[1].timestamp = 3
    /\ learning_history[100].timestamp = 102

(***************************************************************************)
(* Properties of the trend cache.                                          *)
(***************************************************************************)
\* C30: when an optimization cycle completes, the conversation_trends cache
\* holds at most 1000 entries.
C30_CycleTrimsTrendCache ==
    [][optimization_count' > optimization_count =>
          Cardinality(DOMAIN global_memory'.conversation_trends) <= 1000]_vars

(***************************************************************************)
(* Properties of the optimization cycle under failing sub-steps.           *)
(***************************************************************************)
\* the record the last completed optimization cycle appended
LastOptimizationRecord ==
    global_memory.optimization_history[Len(global_memory.optimization_history)]

\* C31: when an optimization cycle ends, also after one of its sub-steps
\* (performance analysis, agent optimization, routing optimization, memory
\* optimization) has failed, it has appended one optimization_history entry,
\* advanced last_optimization to the current time and counted itself, and the
\* entry carries the result of every sub-step that did not fail.
C31_CycleSurvivesFailingSubStep ==
    [][(optimizing /\ ~optimizing') =>
        LET history == global_memory.optimization_history
            record == global_memory'.optimization_history[Len(history) + 1]
            performance == record.performance_metrics
        IN /\ Len(global_memory'.optimization_history) = Len(history) + 1
           /\ SubSeq(global_memory'.optimization_history, 1, Len(history)) = history
           /\ last_optimization' = now
           /\ optimization_count' = optimization_count + 1
           /\ "_analyze_system_performance" \notin cycle_errors' =>
                    performance = performance_analysis
           /\ "_optimize_agent_performance" \notin cycle_errors' =>
                    record.agents = Len(_optimize_agent_performance(performance, FALSE))
           /\ "_optimize_conversation_routing" \notin cycle_errors' =>
                    record.routing = Len(_optimize_conversation_routing(performance, FALSE))
           /\ "_optimize_memory_usage" \notin cycle_errors' =>
                    record.memory = Len(_optimize_memory_usage(FALSE))]_vars

\* a cycle whose routing optimization failed has ended: its record is in the
\* history with the agent optimization that the low success rate calls for
C31_Witness ==
    /\ ~optimizing
    /\ cycle_errors = {"_optimize_conversation_routing"}
    /\ optimization_count = 1
    /\ Len(global_memory.optimization_history) = 1
    /\ LastOptimizationRecord.agents = 1
    /\ LastOptimizationRecord.routing = 0
    /\ last_optimization = LastOptimizationRecord.timestamp

(***************************************************************************)
(* Properties of the optimization history.                                 *)
(***************************************************************************)
\* a step of an optimization cycle or of process_conversation (a status query
\* changes nothing and is a stuttering step)
CycleOrConversationStep ==
    \/ \E c \in InputConversations : BeginAlone(c)
    \/ \E t \in Threads : Step(t)
    \/ TriggerOptimization
    \/ RunOptimizationCycle

\* C32: a step that ends an optimization cycle appends exactly one entry to
\* optimization_history, with the current time as timestamp and an expected
\* improvement, and every other step of a cycle or of process_conversation
\* leaves the history as it is; no such step removes or changes an earlier
\* entry.
C32_OptimizationHistoryAppendOnly ==
    [][CycleOrConversationStep =>
        LET history == global_memory.optimization_history
            history_ == global_memory'.optimization_history
        IN IF optimizing /\ ~optimizing'
           THEN /\ Len(history_) = Len(history) + 1
                /\ SubSeq(history_, 1, Len(history)) = history
                /\ history_[Len(history_)].timestamp = now
                /\ history_[Len(history_)].expected_improvement =
                        _estimate_optimization_impact(
                            "_estimate_optimization_impact" \in cycle_errors')
           ELSE history_ = history]_vars

\* a second cycle has ended after a conversation was processed, without a
\* reset in between: the history holds both records, the first one taken
\* before the conversation was counted
C32_Witness ==
    /\ ~optimizing
    /\ Len(global_memory.optimization_history) = 2
    /\ global_memory.optimization_history[1].performance_metrics.total_conversations = 0
    /\ global_memory.optimization_history[2].performance_metrics.total_conversations = 2

(***************************************************************************)
(* Properties of the persisted conversation counter.                       *)
(***************************************************************************)
\* C33: whenever a call is at its return statement, the persisted
\* total_conversations_processed of the coordinator's row equals the in-memory
\* total_conversations counter, also when the learning-record write of the
\* call failed or was skipped.
C33_PersistedTotalEqualsMemory ==
    \A t \in Threads :
        (pc[t] = "done" /\ FindSuperAgentById(db_super_agents, db_id) # 0) =>
            db_super_agents[FindSuperAgentById(db_super_agents, db_id)]
                    .total_conversations_processed
                = aggregated_metrics.total_conversations

(***************************************************************************)
(* Properties of the significance of a learning outcome.                   *)
(***************************************************************************)
\* C34: the learning outcome of every call identifies at least 3 patterns and
\* is significant, whatever the conversation and the handlers' results, and
\* the inline learning cycle has run once the call is past it: its record is
\* the last of learning_cycles, or its except branch has logged.
C34_EveryOutcomeIsSignificant ==
    \A t \in Threads :
        /\ pc[t] \notin {"idle", "route", "agents", "learn"} =>
            /\ Len(learning_outcome[t].patterns_identified) >= 3
            /\ _has_significant_learning(learning_outcome[t])
        /\ pc[t] \in {"sync", "save", "metrics", "done"} =>
            \/ "_trigger_learning_cycle" \in errors[t]
            \/ /\ global_memory.learning_cycles # <<>>
               /\ global_memory.learning_cycles[Len(global_memory.learning_cycles)]
                        = LearningCycle(learning_outcome[t])

\* a conversation without category, tags and sentiment, whose only handler
\* failed, is at its return statement: exactly 3 patterns, both cycles ran
C34_Witness ==
    \E t \in Threads :
        /\ pc[t] = "done"
        /\ conversation[t].category = None
        /\ conversation[t].tags = <<>>
        /\ "_process_with_specific_agent" \in errors[t]
        /\ Len(learning_outcome[t].patterns_identified) = 3
        /\ Len(global_memory.learning_cycles) = 2

(***************************************************************************)
(* Properties of a decision mined from patterns below the thresholds.      *)
(***************************************************************************)
\* C35: when the finders returned at least one pattern and none of them is
\* above the threshold of its source, the decision is learning based,
\* recommends the coordinator only, with confidence 0.5 and no pattern used;
\* the conversation's category is not recommended and the only handler
\* executed is the coordinator's.
C35_BelowThresholdRoutesToCoordinator ==
    \A t \in Threads :
        (/\ HasRouting(t)
         /\ mined[t].ran
         /\ ~NoPatternFound(t)
         /\ \A s \in Range(PatternSources) : ~Contributed(t, s)) =>
            /\ intelligent_routing[t].learning_based
            /\ intelligent_routing[t].recommended_agents = <<"coordinator">>
            /\ intelligent_routing[t].confidence_score = 50
            /\ intelligent_routing[t].patterns_used = <<>>
            /\ pc[t] # "agents" => DOMAIN agent_results[t] = {"coordinator"}

\* a "ventas" conversation for which only agent learnings at or below 0.8
\* were found has returned: the "ventas" handler did not run
C35_Witness ==
    \E t \in Threads :
        /\ pc[t] = "done"
        /\ conversation[t].category = "ventas"
        /\ mined[t].agent_learnings # <<>>
        /\ \A s \in Range(PatternSources) : ~Contributed(t, s)
        /\ DOMAIN agent_results[t] = {"coordinator"}
        /\ intelligent_routing[t].confidence_score = 50

(***************************************************************************)
(* Properties of the optimizations applied by a routing pass.              *)
(***************************************************************************)
\* len(global_memory["agent_optimizations"]) + len(global_memory["routing_optimizations"])
\* (a section that the dict does not have counts as empty)
AppliedOptimizations(m) ==
    (IF "agent_optimizations" \in DOMAIN m THEN Len(m.agent_optimizations) ELSE 0)
    + (IF "routing_optimizations" \in DOMAIN m THEN Len(m.routing_optimizations) ELSE 0)

\* the optimizations _apply_learnings_optimizations returns in the routing
\* pass of call t: the rows of each query that did not fail and whose
\* application was recorded (none on the default and error branches)
OptimizationsReturned(t) ==
    IF ~intelligent_routing'[t].learning_based THEN 0
    ELSE (IF "agent_optimizations" \in DOMAIN global_memory
             /\ "_optimize_agent_parameters_from_learnings" \notin errors'[t]
          THEN Len(AgentOptimizationRows(db_learnings, conversation[t], FALSE)) ELSE 0)
       + (IF "routing_optimizations" \in DOMAIN global_memory
             /\ "_optimize_routing_from_learnings" \notin errors'[t]
          THEN Len(RoutingOptimizationRows(db_learnings, conversation[t], FALSE)) ELSE 0)

C37_CountEqualsHistoryLength ==
    optimization_count = Len(global_memory.optimization_history)

\* C38: a memory reset leaves global_memory and aggregated_metrics as
\* construction does, with every section present and every counter zero, and
\* the routing pass of every call, also of one after a reset, reports
\* optimizations as applied exactly when the store holds optimization rows
\* for the conversation's category.
C38_ResetRestoresFreshMemory ==
    [][/\ ResetMemory =>
            /\ global_memory' = FreshGlobalMemory
            /\ aggregated_metrics' = FreshAggregatedMetrics
       /\ \A t \in Threads :
            (pc[t] = "route" /\ pc'[t] = "agents"
                /\ intelligent_routing'[t].learning_based /\ errors'[t] = {}) =>
                intelligent_routing'[t].optimization_applied =
                    (AgentOptimizationRows(db_learnings, conversation[t], FALSE)
                        \o RoutingOptimizationRows(db_learnings, conversation[t], FALSE)
                     # <<>>)]_vars

(***************************************************************************)
(* Properties of the learning flag under overlapping calls.                *)
(***************************************************************************)
\* C39: whenever at least one of two overlapping calls is inside its
\* learning cycle (the cycle has started and not finished), is_learning is
\* true and a status query does not report "active".
C39_LearningFlagCoversOverlappingCycles ==
    (\E t \in DOMAIN pc : pc[t] = "cycle_end") =>
        /\ is_learning
        /\ get_system_status.status # "active"

(***************************************************************************)
(* Properties of the in-memory counters and of the learning cycle.         *)
(***************************************************************************)
\* C19: on a coordinator constructed once, whenever a call is at its return
\* statement the total_conversations counter equals the number of calls made
\* so far (calls run one at a time).
C19_EachCallCountsOnce ==
    \A t \in Threads : (startups = 1 /\ pc[t] = "done") =>
        aggregated_metrics.total_conversations = runs

\* C20: the first call on a fresh coordinator has appended exactly one
\* learning_cycles entry when it returns if its learning outcome is
\* significant, and none otherwise.
C20_OneInlineLearningCycle ==
    \A t \in Threads : (startups = 1 /\ runs = 1 /\ pc[t] = "done") =>
        Len(global_memory.learning_cycles)
            = (IF _has_significant_learning(learning_outcome[t]) THEN 1 ELSE 0)

====
